---- MODULE Spec2Model ----
(***************************************************************************)
(* A model of pyvsb-to-cloud: the stream splitter (stream_splitter.rs),    *)
(* the sync planner (sync.rs), the orchestration loop and the lock on the  *)
(* configuration file (main.rs), the encryptor (encryptor.rs) and the      *)
(* parsing of HTTP errors (http_client.rs, http_client/client.rs).         *)
(*                                                                         *)
(* Each component has its own specification (SplitterSpec, PlannerSpec,    *)
(* MainSpec, LockSpec, EncryptorSpec, HttpSpec); the variables of the      *)
(* components a specification does not run stay at their initial values.   *)
(***************************************************************************)
EXTENDS Integers, Sequences, FiniteSets, TLC

(***************************************************************************)
(* Bounds of the model.                                                    *)
(***************************************************************************)
\* Largest stream_max_size explored (the splitter's cap M, 1..MaxStreamMaxSize).
MaxStreamMaxSize == 3
\* Longest Payload frame explored, in bytes.
MaxFrameLen == 2
\* Largest number of frames the producer puts on the splitter's input.
MaxFrames == 3

\* Group names are 1..NumGroups and backup names 1..NumBackups: the order of
\* the numbers stands for the lexicographic order of the names.
NumGroups == 3
NumBackups == 2
\* Largest max_backup_groups explored (the retention cap K, 1..MaxCap).
MaxCap == 2
\* The number of backup jobs in the configuration (config.backups).
NumJobs == 2
\* In the orchestration loop each job's storages hold groups 1..MaxJobGroups.
MaxJobGroups == 1
\* The number of processes started on one configuration file.
NumProcs == 3
\* Largest number of write()/flush() calls made on one Encryptor.
MaxCalls == 3
\* Longest response body explored, in characters.
MaxBodyLen == 4
\* mpsc::channel(2) of Encryptor::new: the buffer of the ciphertext channel.
EncChannelBuffer == 2

\* The splitter never inspects a byte, it only cuts by index, so every byte of
\* the input is given its own value: its position in the whole input, counted
\* from 1. A byte lost, duplicated or reordered then shows in the output.
\* The checksum tokens a producer may attach to Eof.
Checksum == {"c1", "c2"}
NoChecksum == "none"

VARIABLES
    \* ---- stream splitter (stream_splitter.rs) ----
    stream_max_size,  \* the cap M of splitter()
    sp_pc,            \* where the splitter thread is
    sp_result,        \* what splitter() returned: "running", "ok", "err_stream", "err_chunk", "panic"
    offset,           \* splitter's local `offset`
    stream_size,      \* splitter's local `stream_size`
    data,             \* splitter's local `data`: the bytes of the frame not sent yet
    checksum,         \* the checksum of the Eof frame being forwarded
    tx,               \* the splitter's current chunk sender: "open" or "dropped"
    input,            \* history: the frames the splitter took from data_stream
    chunk_streams,    \* the items the consumer got from the outer channel, with each sub-stream's channel
    streams_rx,       \* the consumer's end of the outer channel: "open" or "dropped"
    \* ---- sync planner (sync.rs) ----
    develop_mode,     \* cfg!(debug_assertions): the build profile
    local_storage,    \* what the local storage holds: group -> set of backups
    cloud_storage,    \* what the cloud storage holds now
    max_backup_groups,
    local_groups,     \* the listing of local_storage taken by sync_backups
    cloud_groups,     \* the listing of cloud_storage taken by sync_backups
    target_groups,
    pl_pc,            \* where sync_backups is
    pl_result,        \* what sync_backups returned: "running", "ok", "err"
    group_name,       \* the key the running loop over groups has reached (0: before the first)
    backup_name,      \* the key the loop over the group's backups has reached
    cloud_backups,    \* the `cloud_backups` of the group being uploaded
    first,            \* the `first` flag of the group being uploaded
    log,              \* history: the calls made on cloud_storage in this run, with their outcome
    run,              \* which run of the planner on these storages this is
    \* ---- orchestration (main.rs) ----
    main_pc,          \* where run() is
    backup_index,     \* the index in config.backups of the job of the current iteration
    exit_code,        \* run()'s local `exit_code`
    process_exit,     \* the code given to process::exit (NotExited while running)
    job_log,          \* history: how each iteration's sync_backups ended
    \* ---- processes on one configuration file (main.rs: run, acquire_lock) ----
    lock_holder,      \* the process holding the flock on the configuration file (NoHolder: free)
    proc_pc,          \* where each process is in run()
    proc_jobs,        \* how many backup jobs each process has run
    proc_code,        \* each process's local `exit_code`
    proc_exit,        \* the code each process exited with (NotExited while running)
    \* ---- encryptor (encryptor.rs) ----
    enc_pc,           \* where the owner of the Encryptor is: in new(), holding it, inside close()
    enc_caller,       \* which call entered close(): "new", "write", "flush", "finish", "drop"
    enc_stdin,        \* Encryptor::stdin: "some" or "none" (taken and closed)
    enc_stdout_reader, \* Encryptor::stdout_reader: "some" or "none" (joined)
    enc_chunks_tx,    \* Encryptor::encrypted_chunks_tx: "some" or "none"
    enc_result,       \* Encryptor::result: NoResult, "ok" or the message of the error
    enc_local_result, \* the `result` parameter of the running close()
    enc_written,      \* how many writes the subprocess's stdin has accepted
    enc_calls,        \* history: what each call on the Encryptor returned
    gpg_state,        \* the subprocess: "running", "exited_ok", "exited_err", "killed"
    gpg_stderr,       \* what the subprocess wrote to its stderr
    gpg_emitted,      \* how many chunks of ciphertext the reader got from stdout
    rd_pc,            \* where the stdout reader thread is
    rd_result,        \* what stdout_reader() returned
    enc_chunks,       \* everything sent into the ciphertext channel
    enc_taken,        \* how many of those items the consumer has received
    enc_rx,           \* the ChunkReceiver: "held" by new(), "open" at the consumer, "dropped"
    \* ---- HTTP transport (http_client.rs, http_client/client.rs) ----
    http_pc,          \* "request", "response" (received), "done"
    http_status,      \* response.status()
    http_content_type, \* the Content-Type header of the response (NoContentType: absent)
    http_body,        \* the body of the response, a sequence of characters
    http_result       \* what the transport returned

splitter_vars == <<stream_max_size, sp_pc, sp_result, offset, stream_size, data,
                   checksum, tx, input, chunk_streams, streams_rx>>

planner_vars == <<develop_mode, local_storage, cloud_storage, max_backup_groups,
                  local_groups, cloud_groups, target_groups, pl_pc, pl_result,
                  group_name, backup_name, cloud_backups, first, log, run>>

main_vars == <<main_pc, backup_index, exit_code, process_exit, job_log>>

lock_vars == <<lock_holder, proc_pc, proc_jobs, proc_code, proc_exit>>

encryptor_vars == <<enc_pc, enc_caller, enc_stdin, enc_stdout_reader, enc_chunks_tx,
                    enc_result, enc_local_result, enc_written, enc_calls,
                    gpg_state, gpg_stderr, gpg_emitted, rd_pc, rd_result,
                    enc_chunks, enc_taken, enc_rx>>

http_vars == <<http_pc, http_status, http_content_type, http_body, http_result>>

vars == <<splitter_vars, planner_vars, main_vars, lock_vars, encryptor_vars, http_vars>>

\* What a step of one component leaves alone.
not_splitter_vars == <<planner_vars, main_vars, lock_vars, encryptor_vars, http_vars>>
not_planner_vars == <<splitter_vars, main_vars, lock_vars, encryptor_vars, http_vars>>
not_main_vars == <<splitter_vars, lock_vars, encryptor_vars, http_vars>>
not_http_vars == <<splitter_vars, planner_vars, main_vars, lock_vars, encryptor_vars>>
not_lock_vars == <<splitter_vars, planner_vars, main_vars, encryptor_vars, http_vars>>
not_encryptor_vars == <<splitter_vars, planner_vars, main_vars, lock_vars, http_vars>>

(***************************************************************************)
(* Helpers on sequences.                                                   *)
(***************************************************************************)
RECURSIVE Flatten(_)
Flatten(ss) == IF ss = <<>> THEN <<>> ELSE Head(ss) \o Flatten(Tail(ss))

(***************************************************************************)
(* Stream splitter: stream_splitter.rs                                     *)
(***************************************************************************)
\* enum Data plus the Err side of GenericResult<Data>, as uniform records.
Payload(bytes) == [type |-> "Payload", bytes |-> bytes, checksum |-> NoChecksum]
EofWithChecksum(c) == [type |-> "EofWithChecksum", bytes |-> <<>>, checksum |-> c]
ErrFrame == [type |-> "Err", bytes |-> <<>>, checksum |-> NoChecksum]

\* The bytes of the payload frames taken so far, and the next payload of n bytes.
PayloadBytes(frames) == Flatten([i \in 1..Len(frames) |-> frames[i].bytes])
FreshBytes(frames, n) == [i \in 1..n |-> Len(PayloadBytes(frames)) + i]

\* What the producer may put on data_stream after `frames`.
Frames(frames) == {Payload(FreshBytes(frames, n)) : n \in 0..MaxFrameLen}
                  \cup {EofWithChecksum(c) : c \in Checksum} \cup {ErrFrame}

\* An item of a sub-stream's chunk channel: Ok(chunk) or Err(hyper::Error).
OkChunk(bytes) == [kind |-> "chunk", bytes |-> bytes]
ErrChunk_as_chunk == [kind |-> "chunk", bytes |-> <<>>]
ErrChunk == [kind |-> "error", bytes |-> <<>>]

\* enum ChunkStream: what travels on the outer channel. A Receiver carries the
\* chunk channel: `chunks` is everything sent into it, `taken` how many of
\* those items the consumer has received, `tx_open` whether its sender is
\* alive and `rx` the consumer's end.
Receiver(start) ==
    [kind |-> "Receiver", start |-> start, checksum |-> NoChecksum,
     chunks |-> <<>>, taken |-> 0, tx_open |-> TRUE, rx |-> "open"]
EofWithCheckSum(off, c) ==
    [kind |-> "EofWithCheckSum", start |-> off, checksum |-> c,
     chunks |-> <<>>, taken |-> 0, tx_open |-> FALSE, rx |-> "none"]

\* let available_size = stream_max_size - stream_size;
available_size == stream_max_size - stream_size

\* data.slice_to(n) and data.slice_from(n) of bytes::Bytes.
slice_to(d, n) == SubSeq(d, 1, n)
slice_from_dup(d, n) == SubSeq(d, n, Len(d))
slice_from(d, n) == SubSeq(d, n + 1, Len(d))

\* offset += n
offset_add_lost(n) == offset
offset_add(n) == offset + n

\* stream_size += data_size
stream_size_add_lost(n) == stream_size
stream_size_add(n) == stream_size + n

\* ChunkStream::EofWithCheckSum(offset, checksum)
eof_record_stream_size(c) == EofWithCheckSum(stream_size, c)
eof_record(c) == EofWithCheckSum(offset, c)

\* The index of the sub-stream the splitter's `tx` writes to: the last item of
\* the outer channel.
Cur == Len(chunk_streams)

\* futures::sync::mpsc::channel(0) with its single sender holds one item: a send
\* completes as soon as the previous item has been taken by the receiver.
HasRoom(s) == Len(s.chunks) = s.taken

\* The consumer (WriteProvider::upload_file) handles one sub-stream at a time:
\* it calls recv() on the outer channel at the start and whenever it is through
\* with the sub-stream it holds, having read it to its end or dropped it.
ConsumerAtRecv ==
    /\ streams_rx = "open"
    /\ IF chunk_streams = <<>> THEN TRUE
       ELSE IF chunk_streams[Cur].rx = "dropped" THEN TRUE
       ELSE ~chunk_streams[Cur].tx_open /\ HasRoom(chunk_streams[Cur])

SplitterInit ==
    /\ stream_max_size \in 1..MaxStreamMaxSize
    /\ sp_pc = "send_stream"
    /\ sp_result = "running"
    /\ offset = 0
    /\ stream_size = 0
    /\ data = <<>>
    /\ checksum = NoChecksum
    /\ tx = "open"
    /\ input = <<>>
    /\ chunk_streams = <<>>
    /\ streams_rx = "open"

SplitterIdle ==
    /\ stream_max_size = 1
    /\ sp_pc = "idle"
    /\ sp_result = "running"
    /\ offset = 0
    /\ stream_size = 0
    /\ data = <<>>
    /\ checksum = NoChecksum
    /\ tx = "dropped"
    /\ input = <<>>
    /\ chunk_streams = <<>>
    /\ streams_rx = "open"

Return(r) ==
    /\ sp_pc' = "done"
    /\ sp_result' = r
    /\ tx' = "dropped"

\* The consumer takes the next item of the outer channel and lets go of the
\* receiver it held: whether it had read that sub-stream to its end or dropped
\* it makes no difference from then on.
ReleaseCurRx(cs) ==
    IF cs = <<>> THEN cs ELSE [cs EXCEPT ![Len(cs)].rx = "released"]

\* Dropping the splitter's sender closes the channel of the current sub-stream.
CloseCurTx_not(cs) == cs
CloseCurTx(cs) ==
    IF cs = <<>> THEN cs ELSE [cs EXCEPT ![Len(cs)].tx_open = FALSE]

\* chunk_streams.send(ChunkStream::Receiver(offset, rx))?  (lines 53 and 114):
\* a rendezvous with the consumer's recv(); it fails once the consumer has
\* dropped the outer receiver. Line 115 resets stream_size.
SendStream ==
    /\ sp_pc = "send_stream"
    /\ \/ /\ ConsumerAtRecv
          /\ chunk_streams' = Append(ReleaseCurRx(chunk_streams), Receiver(offset))
          /\ stream_size' = 0
          /\ sp_pc' = IF input = <<>> THEN "recv" ELSE "loop"
          /\ UNCHANGED <<sp_result, tx>>
       \/ /\ streams_rx = "dropped"
          /\ Return("err_stream")
          /\ UNCHANGED <<chunk_streams, stream_size>>
    /\ UNCHANGED <<stream_max_size, offset, data, checksum, input, streams_rx>>
    /\ UNCHANGED not_splitter_vars

\* for data_result in data_stream.iter(): the next frame of the input, or the
\* end of the loop when the producer has hung up (lines 55-85, 121-123).
RecvFrame ==
    /\ sp_pc = "recv"
    /\ \/ \E frame \in Frames(input) :
            /\ Len(input) < MaxFrames
            /\ input' = Append(input, frame)
            /\ \/ /\ frame.type = "Payload"
                  /\ data' = frame.bytes
                  /\ sp_pc' = "loop"
                  /\ UNCHANGED <<checksum, tx, chunk_streams>>
               \/ /\ frame.type = "EofWithChecksum"
                  \* drop(tx)
                  /\ tx' = "dropped"
                  /\ chunk_streams' = CloseCurTx(chunk_streams)
                  /\ checksum' = frame.checksum
                  /\ sp_pc' = "send_eof"
                  /\ UNCHANGED data
               \/ /\ frame.type = "Err"
                  /\ sp_pc' = "send_err"
                  /\ UNCHANGED <<data, checksum, tx, chunk_streams>>
            /\ UNCHANGED sp_result
       \/ /\ Return("ok")
          /\ chunk_streams' = CloseCurTx(chunk_streams)
          /\ UNCHANGED <<input, data, checksum>>
    /\ UNCHANGED <<stream_max_size, offset, stream_size, streams_rx>>
    /\ UNCHANGED not_splitter_vars

\* if available_size >= data_size { if data_size > 0 {...} break } with an empty
\* frame (lines 91-100).
SkipEmpty ==
    /\ sp_pc = "loop"
    /\ available_size >= Len(data)
    /\ Len(data) = 0
    /\ sp_pc' = "recv"
    /\ UNCHANGED <<stream_max_size, sp_result, offset, stream_size, data, checksum,
                   tx, input, chunk_streams, streams_rx>>
    /\ UNCHANGED not_splitter_vars

\* tx = tx.send(Ok(data.into())).wait()?; stream_size += data_size;
\* offset += data_size; (lines 91-100)
SendWhole ==
    /\ sp_pc = "loop"
    /\ available_size >= Len(data)
    /\ Len(data) > 0
    /\ \/ /\ chunk_streams[Cur].rx = "open"
          /\ HasRoom(chunk_streams[Cur])
          /\ chunk_streams' = [chunk_streams EXCEPT
                ![Cur].chunks = Append(@, OkChunk(data))]
          /\ stream_size' = stream_size_add(Len(data))
          /\ offset' = offset_add(Len(data))
          /\ data' = <<>>
          /\ sp_pc' = "recv"
          /\ UNCHANGED <<sp_result, tx>>
       \/ /\ chunk_streams[Cur].rx = "dropped"
          /\ Return("err_chunk")
          /\ chunk_streams' = CloseCurTx(chunk_streams)
          /\ UNCHANGED <<stream_size, offset, data>>
    /\ UNCHANGED <<stream_max_size, checksum, input, streams_rx>>
    /\ UNCHANGED not_splitter_vars

\* tx.send(Ok(data.slice_to(available_size))).wait()?; the sender is consumed
\* by the send and not kept; data = data.slice_from(available_size);
\* offset += available_size; (lines 103-109)
SendSlice ==
    /\ sp_pc = "loop"
    /\ available_size < Len(data)
    /\ available_size > 0
    /\ \/ /\ chunk_streams[Cur].rx = "open"
          /\ HasRoom(chunk_streams[Cur])
          /\ chunk_streams' = [chunk_streams EXCEPT
                ![Cur].chunks = Append(@, OkChunk(slice_to(data, available_size))),
                ![Cur].tx_open = FALSE]
          /\ data' = slice_from(data, available_size)
          /\ offset' = offset_add(available_size)
          /\ tx' = "dropped"
          /\ sp_pc' = "new_stream"
          /\ UNCHANGED sp_result
       \/ /\ chunk_streams[Cur].rx = "dropped"
          /\ Return("err_chunk")
          /\ chunk_streams' = CloseCurTx(chunk_streams)
          /\ UNCHANGED <<offset, data>>
    /\ UNCHANGED <<stream_max_size, stream_size, checksum, input, streams_rx>>
    /\ UNCHANGED not_splitter_vars

\* The current sub-stream is exactly full: nothing is sent into it
\* (available_size == 0, lines 103 and 111).
StreamFull ==
    /\ sp_pc = "loop"
    /\ available_size < Len(data)
    /\ ~(available_size > 0)
    /\ sp_pc' = "new_stream"
    /\ UNCHANGED <<stream_max_size, sp_result, offset, stream_size, data, checksum,
                   tx, input, chunk_streams, streams_rx>>
    /\ UNCHANGED not_splitter_vars

\* let (new_tx, new_rx) = futures_mpsc::channel(0); tx = new_tx; the
\* assignment drops the previous sender (lines 112-113).
NewStream ==
    /\ sp_pc = "new_stream"
    /\ tx' = "open"
    /\ chunk_streams' = CloseCurTx(chunk_streams)
    /\ sp_pc' = "send_stream"
    /\ UNCHANGED <<stream_max_size, sp_result, offset, stream_size, data, checksum,
                   input, streams_rx>>
    /\ UNCHANGED not_splitter_vars

\* chunk_streams.send(ChunkStream::EofWithCheckSum(offset, checksum))?;
\* return Ok(()) (lines 63-71)
SendEof ==
    /\ sp_pc = "send_eof"
    /\ \/ /\ ConsumerAtRecv
          /\ chunk_streams' = Append(ReleaseCurRx(chunk_streams), eof_record(checksum))
          /\ Return("ok")
       \/ /\ streams_rx = "dropped"
          /\ Return("err_stream")
          /\ UNCHANGED chunk_streams
    /\ UNCHANGED <<stream_max_size, offset, stream_size, data, checksum, input,
                   streams_rx>>
    /\ UNCHANGED not_splitter_vars

\* tx.send(Err(err)).wait()?; (lines 73-77): the sender is consumed.
SendErr ==
    /\ sp_pc = "send_err"
    /\ \/ /\ chunk_streams[Cur].rx = "open"
          /\ HasRoom(chunk_streams[Cur])
          /\ chunk_streams' = [chunk_streams EXCEPT
                ![Cur].chunks = Append(@, ErrChunk),
                ![Cur].tx_open = FALSE]
          /\ tx' = "dropped"
          /\ sp_pc' = "drain"
          /\ UNCHANGED sp_result
       \/ /\ chunk_streams[Cur].rx = "dropped"
          /\ Return("err_chunk")
          /\ chunk_streams' = CloseCurTx(chunk_streams)
    /\ UNCHANGED <<stream_max_size, offset, stream_size, data, checksum, input,
                   streams_rx>>
    /\ UNCHANGED not_splitter_vars

\* data_stream.recv().unwrap_err(); return Ok(()) (lines 81-83): a further
\* frame on the input panics the thread.
Drain ==
    /\ sp_pc = "drain"
    /\ \/ /\ Return("ok")
          /\ UNCHANGED input
       \/ \E frame \in Frames(input) :
            /\ Len(input) < MaxFrames
            /\ input' = Append(input, frame)
            /\ Return("panic")
    /\ UNCHANGED <<stream_max_size, offset, stream_size, data, checksum,
                   chunk_streams, streams_rx>>
    /\ UNCHANGED not_splitter_vars

\* The consumer takes the next item of the sub-stream it holds.
ConsumerRecvChunk ==
    /\ sp_pc # "idle"
    /\ chunk_streams # <<>>
    /\ chunk_streams[Cur].kind = "Receiver"
    /\ chunk_streams[Cur].rx = "open"
    /\ ~HasRoom(chunk_streams[Cur])
    /\ chunk_streams' = [chunk_streams EXCEPT ![Cur].taken = @ + 1]
    /\ UNCHANGED <<stream_max_size, sp_pc, sp_result, offset, stream_size, data,
                   checksum, tx, input, streams_rx>>
    /\ UNCHANGED not_splitter_vars

\* The consumer drops the receiver of the sub-stream it holds before that
\* stream's end (a drop after the last item of a closed stream changes nothing).
ConsumerDropChunkRx ==
    /\ sp_pc # "idle"
    /\ chunk_streams # <<>>
    /\ chunk_streams[Cur].kind = "Receiver"
    /\ chunk_streams[Cur].rx = "open"
    /\ chunk_streams[Cur].tx_open \/ ~HasRoom(chunk_streams[Cur])
    /\ chunk_streams' = [chunk_streams EXCEPT ![Cur].rx = "dropped"]
    /\ UNCHANGED <<stream_max_size, sp_pc, sp_result, offset, stream_size, data,
                   checksum, tx, input, streams_rx>>
    /\ UNCHANGED not_splitter_vars

\* The consumer drops the outer receiver.
ConsumerDropStreamsRx ==
    /\ sp_pc \notin {"idle", "done"}
    /\ streams_rx = "open"
    /\ streams_rx' = "dropped"
    /\ UNCHANGED <<stream_max_size, sp_pc, sp_result, offset, stream_size, data,
                   checksum, tx, input, chunk_streams>>
    /\ UNCHANGED not_splitter_vars

\* A step of the splitter thread.
SplitterThread ==
    \/ SendStream
    \/ RecvFrame
    \/ SkipEmpty
    \/ SendWhole
    \/ SendSlice
    \/ StreamFull
    \/ NewStream
    \/ SendEof
    \/ SendErr
    \/ Drain

SplitterNext ==
    \/ SendStream
    \/ RecvFrame
    \/ SkipEmpty
    \/ SendWhole
    \/ SendSlice
    \/ StreamFull
    \/ NewStream
    \/ SendEof
    \/ SendErr
    \/ Drain
    \/ ConsumerRecvChunk
    \/ ConsumerDropChunkRx
    \/ ConsumerDropStreamsRx

(***************************************************************************)
(* Sync planner: sync.rs                                                   *)
(***************************************************************************)
Groups == 1..NumGroups
Backups == 1..NumBackups
\* Option::None of a group or backup name, and the cursor before the first key.
None == 0

\* storage::BackupGroups: a BTreeMap from group name to a BTreeSet of backup
\* names. All of them over the names of the model.
BackupGroups == UNION {[D -> SUBSET Backups] : D \in SUBSET Groups}
EmptyBackupGroups == [g \in {} |-> {}]

\* BTreeMap::get(key) with a default for a missing key.
get_or_empty(groups, g) == IF g \in DOMAIN groups THEN groups[g] ELSE {}

\* The next key of an ascending iteration after `cursor`, None at its end.
next_key(keys, cursor) ==
    IF {k \in keys : k > cursor} = {} THEN None
    ELSE CHOOSE k \in keys : k > cursor /\ \A h \in keys : h > cursor => k <= h

\* backups.is_empty()
is_empty_never(backups) == FALSE
is_empty(backups) == backups = {}

\* The union step of get_target_backup_groups (lines 99-104):
\* target_groups.entry(name).or_insert_with(Backups::new).extend(backups).
extend_groups_every(local, cloud) ==
    [g \in DOMAIN local \cup DOMAIN cloud |->
        get_or_empty(local, g) \cup UNION {cloud[h] : h \in DOMAIN cloud}]
extend_groups(local, cloud) ==
    [g \in DOMAIN local \cup DOMAIN cloud |->
        get_or_empty(local, g) \cup get_or_empty(cloud, g)]

\* The loop of lines 110-121 over target_groups.iter().rev(): `keys` are the
\* keys not visited yet, groups_num the count so far. The result is
\* first_group_name, None when the loop ends without a break.
RECURSIVE find_first_group_name(_, _, _, _)
find_first_group_name(groups, keys, groups_num, max_groups) ==
    IF keys = {} THEN None
    ELSE LET name == CHOOSE k \in keys : \A h \in keys : h <= k
         IN IF is_empty(groups[name])
            THEN find_first_group_name(groups, keys \ {name}, groups_num, max_groups)
            ELSE IF groups_num + 1 >= max_groups
                 THEN name
                 ELSE find_first_group_name(groups, keys \ {name}, groups_num + 1,
                                            max_groups)

\* BTreeMap::split_off(&key): the entries with a key >= key.
split_off_after(groups, key) == [g \in {k \in DOMAIN groups : k > key} |-> groups[g]]
split_off(groups, key) == [g \in {k \in DOMAIN groups : k >= key} |-> groups[g]]

\* fn get_target_backup_groups(local_groups, cloud_groups, max_groups)
get_target_backup_groups(local, cloud, max_groups) ==
    LET merged == extend_groups(local, cloud)
        first_group_name ==
            IF Cardinality(DOMAIN merged) > max_groups
            THEN find_first_group_name(merged, DOMAIN merged, 0, max_groups)
            ELSE None
    IN IF first_group_name # None THEN split_off(merged, first_group_name)
       ELSE merged

\* if develop_mode || !target_groups.contains_key(group_name)  (line 86)
must_delete_always(g) == TRUE
must_delete(g) == develop_mode \/ g \notin DOMAIN target_groups

\* A call on cloud_storage and how it ended.
Call(op, g, b, ok) == [op |-> op, group |-> g, backup |-> b, ok |-> ok]

\* What Storage::create_backup_group, upload_backup and delete_backup_group do
\* to the cloud storage when they succeed; a failed call leaves it as it was.
created(storage, g) == [h \in DOMAIN storage \cup {g} |-> get_or_empty(storage, h)]
uploaded(storage, g, b) ==
    [h \in DOMAIN storage \cup {g} |->
        IF h = g THEN get_or_empty(storage, h) \cup {b} ELSE storage[h]]
deleted(storage, g) == [h \in DOMAIN storage \ {g} |-> storage[h]]

PlannerLocalsIdle ==
    /\ local_storage = EmptyBackupGroups
    /\ cloud_storage = EmptyBackupGroups
    /\ max_backup_groups = 1
    /\ local_groups = EmptyBackupGroups
    /\ cloud_groups = EmptyBackupGroups
    /\ target_groups = EmptyBackupGroups
    /\ pl_pc = "idle"
    /\ pl_result = "running"
    /\ group_name = None
    /\ backup_name = None
    /\ cloud_backups = {}
    /\ first = TRUE
    /\ log = <<>>
    /\ run = 0

PlannerIdle ==
    /\ develop_mode = FALSE
    /\ PlannerLocalsIdle

\* sync_backups is entered: the build is a debug or a release build, the two
\* storages hold any groups, and the cap is positive (the configuration's
\* max_backup_groups).
PlannerInit ==
    /\ develop_mode \in BOOLEAN
    /\ local_storage \in BackupGroups
    /\ cloud_storage \in BackupGroups
    /\ max_backup_groups \in 1..MaxCap
    /\ local_groups = EmptyBackupGroups
    /\ cloud_groups = EmptyBackupGroups
    /\ target_groups = EmptyBackupGroups
    /\ pl_pc = "list_local"
    /\ pl_result = "running"
    /\ group_name = None
    /\ backup_name = None
    /\ cloud_backups = {}
    /\ first = TRUE
    /\ log = <<>>
    /\ run = 1

PlannerReturn(r) ==
    /\ pl_pc' = "done"
    /\ pl_result' = r

\* let local_groups = local_storage.get_backup_groups().map_err(...)?  (18-19)
ListLocal ==
    /\ pl_pc = "list_local"
    /\ \/ /\ local_groups' = local_storage
          /\ pl_pc' = "list_cloud"
          /\ UNCHANGED pl_result
       \/ /\ PlannerReturn("err")
          /\ UNCHANGED local_groups
    /\ UNCHANGED <<develop_mode, local_storage, cloud_storage, max_backup_groups,
                   cloud_groups, target_groups, group_name, backup_name,
                   cloud_backups, first, log, run>>
    /\ UNCHANGED not_planner_vars

\* let cloud_groups = cloud_storage.get_backup_groups().map_err(...)?  (21-22)
ListCloud ==
    /\ pl_pc = "list_cloud"
    /\ \/ /\ cloud_groups' = cloud_storage
          /\ pl_pc' = "plan"
          /\ UNCHANGED pl_result
       \/ /\ PlannerReturn("err")
          /\ UNCHANGED cloud_groups
    /\ UNCHANGED <<develop_mode, local_storage, cloud_storage, max_backup_groups,
                   local_groups, target_groups, group_name, backup_name,
                   cloud_backups, first, log, run>>
    /\ UNCHANGED not_planner_vars

\* let target_groups = get_target_backup_groups(local_groups, &cloud_groups,
\* max_backup_groups);  (line 40)
Plan ==
    /\ pl_pc = "plan"
    /\ target_groups' = get_target_backup_groups(local_groups, cloud_groups,
                                                 max_backup_groups)
    /\ group_name' = None
    /\ pl_pc' = "groups"
    /\ UNCHANGED <<develop_mode, local_storage, cloud_storage, max_backup_groups,
                   local_groups, cloud_groups, pl_result, backup_name,
                   cloud_backups, first, log, run>>
    /\ UNCHANGED not_planner_vars

\* The group the loop of line 43 visits next, None at its end.
NextTargetGroup == next_key(DOMAIN target_groups, group_name)

\* if target_backups.is_empty() { continue }  (lines 44-46)
SkipEmptyGroup ==
    /\ pl_pc = "groups"
    /\ NextTargetGroup # None
    /\ is_empty(target_groups[NextTargetGroup])
    /\ group_name' = NextTargetGroup
    /\ UNCHANGED <<develop_mode, local_storage, cloud_storage, max_backup_groups,
                   local_groups, cloud_groups, target_groups, pl_pc, pl_result,
                   backup_name, cloud_backups, first, log, run>>
    /\ UNCHANGED not_planner_vars

\* Some(backups) => backups  (lines 48-49), then `let mut first = true`.
EnterCloudGroup ==
    /\ pl_pc = "groups"
    /\ NextTargetGroup # None
    /\ ~is_empty(target_groups[NextTargetGroup])
    /\ NextTargetGroup \in DOMAIN cloud_groups
    /\ group_name' = NextTargetGroup
    /\ cloud_backups' = cloud_groups[NextTargetGroup]
    /\ first' = TRUE
    /\ backup_name' = None
    /\ pl_pc' = "backups"
    /\ UNCHANGED <<develop_mode, local_storage, cloud_storage, max_backup_groups,
                   local_groups, cloud_groups, target_groups, pl_result, log, run>>
    /\ UNCHANGED not_planner_vars

\* None => cloud_storage.create_backup_group(group_name): on failure the group
\* is skipped, on success its cloud backups are &no_backups  (lines 50-60).
CreateGroup ==
    /\ pl_pc = "groups"
    /\ NextTargetGroup # None
    /\ ~is_empty(target_groups[NextTargetGroup])
    /\ NextTargetGroup \notin DOMAIN cloud_groups
    /\ group_name' = NextTargetGroup
    /\ \/ /\ log' = Append(log, Call("create", NextTargetGroup, None, TRUE))
          /\ cloud_storage' = created(cloud_storage, NextTargetGroup)
          /\ cloud_backups' = {}
          /\ first' = TRUE
          /\ backup_name' = None
          /\ pl_pc' = "backups"
       \/ /\ log' = Append(log, Call("create", NextTargetGroup, None, FALSE))
          /\ UNCHANGED <<cloud_storage, cloud_backups, first, backup_name, pl_pc>>
    /\ UNCHANGED <<develop_mode, local_storage, max_backup_groups, local_groups,
                   cloud_groups, target_groups, pl_result, run>>
    /\ UNCHANGED not_planner_vars

\* The end of the loop over target_groups (line 83).
EndGroups ==
    /\ pl_pc = "groups"
    /\ NextTargetGroup = None
    /\ group_name' = None
    /\ pl_pc' = "deletes"
    /\ UNCHANGED <<develop_mode, local_storage, cloud_storage, max_backup_groups,
                   local_groups, cloud_groups, target_groups, pl_result,
                   backup_name, cloud_backups, first, log, run>>
    /\ UNCHANGED not_planner_vars

\* The backup the loop of line 64 visits next, None at its end.
NextBackup == next_key(target_groups[group_name], backup_name)

\* if develop_mode && first { first = false; continue }  (lines 65-68)
DevelopSkipFirst ==
    /\ pl_pc = "backups"
    /\ NextBackup # None
    /\ develop_mode /\ first
    /\ first' = FALSE
    /\ backup_name' = NextBackup
    /\ UNCHANGED <<develop_mode, local_storage, cloud_storage, max_backup_groups,
                   local_groups, cloud_groups, target_groups, pl_pc, pl_result,
                   group_name, cloud_backups, log, run>>
    /\ UNCHANGED not_planner_vars

\* if cloud_backups.contains(backup_name) { continue }  (lines 70-72)
SkipUploaded ==
    /\ pl_pc = "backups"
    /\ NextBackup # None
    /\ ~(develop_mode /\ first)
    /\ NextBackup \in cloud_backups
    /\ backup_name' = NextBackup
    /\ UNCHANGED <<develop_mode, local_storage, cloud_storage, max_backup_groups,
                   local_groups, cloud_groups, target_groups, pl_pc, pl_result,
                   group_name, cloud_backups, first, log, run>>
    /\ UNCHANGED not_planner_vars

\* cloud_storage.upload_backup(&backup_path, group_name, backup_name, ...):
\* a failure is logged and the loop goes on  (lines 74-81).
UploadBackup ==
    /\ pl_pc = "backups"
    /\ NextBackup # None
    /\ ~(develop_mode /\ first)
    /\ NextBackup \notin cloud_backups
    /\ backup_name' = NextBackup
    /\ \/ /\ log' = Append(log, Call("upload", group_name, NextBackup, TRUE))
          /\ cloud_storage' = uploaded(cloud_storage, group_name, NextBackup)
       \/ /\ log' = Append(log, Call("upload", group_name, NextBackup, FALSE))
          /\ UNCHANGED cloud_storage
    /\ UNCHANGED <<develop_mode, local_storage, max_backup_groups, local_groups,
                   cloud_groups, target_groups, pl_pc, pl_result, group_name,
                   cloud_backups, first, run>>
    /\ UNCHANGED not_planner_vars

\* The end of the loop over the group's backups (line 82).
EndBackups ==
    /\ pl_pc = "backups"
    /\ NextBackup = None
    /\ pl_pc' = "groups"
    /\ UNCHANGED <<develop_mode, local_storage, cloud_storage, max_backup_groups,
                   local_groups, cloud_groups, target_groups, pl_result,
                   group_name, backup_name, cloud_backups, first, log, run>>
    /\ UNCHANGED not_planner_vars

\* The group the loop of line 85 visits next, None at its end.
NextCloudGroup == next_key(DOMAIN cloud_groups, group_name)

\* cloud_storage.delete_backup_group(group_name): a failure is logged and the
\* loop goes on  (lines 86-92).
DeleteGroup ==
    /\ pl_pc = "deletes"
    /\ NextCloudGroup # None
    /\ must_delete(NextCloudGroup)
    /\ group_name' = NextCloudGroup
    /\ \/ /\ log' = Append(log, Call("delete", NextCloudGroup, None, TRUE))
          /\ cloud_storage' = deleted(cloud_storage, NextCloudGroup)
       \/ /\ log' = Append(log, Call("delete", NextCloudGroup, None, FALSE))
          /\ UNCHANGED cloud_storage
    /\ UNCHANGED <<develop_mode, local_storage, max_backup_groups, local_groups,
                   cloud_groups, target_groups, pl_pc, pl_result, backup_name,
                   cloud_backups, first, run>>
    /\ UNCHANGED not_planner_vars

\* A cloud group that stays (line 86, condition false).
KeepGroup ==
    /\ pl_pc = "deletes"
    /\ NextCloudGroup # None
    /\ ~must_delete(NextCloudGroup)
    /\ group_name' = NextCloudGroup
    /\ UNCHANGED <<develop_mode, local_storage, cloud_storage, max_backup_groups,
                   local_groups, cloud_groups, target_groups, pl_pc, pl_result,
                   backup_name, cloud_backups, first, log, run>>
    /\ UNCHANGED not_planner_vars

\* Ok(())  (line 95)
EndDeletes ==
    /\ pl_pc = "deletes"
    /\ NextCloudGroup = None
    /\ PlannerReturn("ok")
    /\ UNCHANGED <<develop_mode, local_storage, cloud_storage, max_backup_groups,
                   local_groups, cloud_groups, target_groups, group_name,
                   backup_name, cloud_backups, first, log, run>>
    /\ UNCHANGED not_planner_vars

\* Every call of the run succeeded.
AllSucceeded == \A i \in 1..Len(log) : log[i].ok

\* The program is run again on the same storages after a run in which every
\* call succeeded: sync_backups starts over with the cloud as that run left it.
RunAgain ==
    /\ pl_pc = "done"
    /\ pl_result = "ok"
    /\ run = 1
    /\ AllSucceeded
    /\ run' = 2
    /\ pl_pc' = "list_local"
    /\ pl_result' = "running"
    /\ local_groups' = EmptyBackupGroups
    /\ cloud_groups' = EmptyBackupGroups
    /\ target_groups' = EmptyBackupGroups
    /\ group_name' = None
    /\ backup_name' = None
    /\ cloud_backups' = {}
    /\ first' = TRUE
    /\ log' = <<>>
    /\ UNCHANGED <<develop_mode, local_storage, cloud_storage, max_backup_groups>>
    /\ UNCHANGED not_planner_vars

PlannerNext ==
    \/ ListLocal
    \/ ListCloud
    \/ Plan
    \/ SkipEmptyGroup
    \/ EnterCloudGroup
    \/ CreateGroup
    \/ EndGroups
    \/ DevelopSkipFirst
    \/ SkipUploaded
    \/ UploadBackup
    \/ EndBackups
    \/ DeleteGroup
    \/ KeepGroup
    \/ EndDeletes
    \/ RunAgain

(***************************************************************************)
(* Orchestration: main.rs                                                  *)
(***************************************************************************)
NotExited == -1

\* The storages a job of the configuration may point at.
JobStorages == UNION {[D -> SUBSET Backups] : D \in SUBSET (1..MaxJobGroups)}

\* if let Err(err) = sync_backups(backup) { exit_code = 1; }  (lines 71-74)
exit_code_reset(result) == IF result = "err" THEN 1 ELSE 0
exit_code_after(result) == IF result = "err" THEN 1 ELSE exit_code

MainIdle ==
    /\ main_pc = "idle"
    /\ backup_index = 0
    /\ exit_code = 0
    /\ process_exit = NotExited
    /\ job_log = <<>>

\* main() calls run(): the configuration is loaded, nothing has run.
MainInit ==
    /\ main_pc = "acquire_lock"
    /\ backup_index = 0
    /\ exit_code = 0
    /\ process_exit = NotExited
    /\ job_log = <<>>

\* let _lock = acquire_lock(&config.path)?; let mut exit_code = 0;
\* (lines 64-66): flock fails when another process holds the lock, run()
\* returns the error and main() exits with 1 (lines 55-58).
AcquireLock ==
    /\ main_pc = "acquire_lock"
    /\ \/ /\ main_pc' = "loop"
          /\ exit_code' = 0
          /\ UNCHANGED process_exit
       \/ /\ main_pc' = "exited"
          /\ process_exit' = 1
          /\ UNCHANGED exit_code
    /\ UNCHANGED <<backup_index, job_log>>
    /\ UNCHANGED <<planner_vars, not_main_vars>>

\* for backup in config.backups.iter(): the next job is entered
\* (lines 68-71, 98): its storages and its cap are those of its configuration.
StartJob ==
    /\ main_pc = "loop"
    /\ backup_index < NumJobs
    /\ backup_index' = backup_index + 1
    /\ main_pc' = "job_list_local"
    /\ local_storage' \in JobStorages
    /\ cloud_storage' \in JobStorages
    /\ max_backup_groups' \in 1..MaxCap
    /\ local_groups' = EmptyBackupGroups
    /\ cloud_groups' = EmptyBackupGroups
    /\ target_groups' = EmptyBackupGroups
    /\ pl_pc' = "idle"
    /\ pl_result' = "running"
    /\ group_name' = None
    /\ backup_name' = None
    /\ cloud_backups' = {}
    /\ first' = TRUE
    /\ log' = <<>>
    /\ run' = 1
    /\ UNCHANGED <<develop_mode, exit_code, process_exit, job_log>>
    /\ UNCHANGED not_main_vars

\* sync_backups(backup) returned `result` to the loop of run(): lines 71-74.
\* The job's storages, listings and the locals of the sync go out of scope.
JobReturns(result) ==
    /\ exit_code' = exit_code_after(result)
    /\ job_log' = Append(job_log, [job |-> backup_index, result |-> result,
                                   failed_call |-> ~AllSucceeded])
    /\ main_pc' = "loop"
    /\ local_storage' = EmptyBackupGroups
    /\ cloud_storage' = EmptyBackupGroups
    /\ max_backup_groups' = 1
    /\ local_groups' = EmptyBackupGroups
    /\ cloud_groups' = EmptyBackupGroups
    /\ target_groups' = EmptyBackupGroups
    /\ pl_pc' = "idle"
    /\ pl_result' = "running"
    /\ group_name' = None
    /\ backup_name' = None
    /\ cloud_backups' = {}
    /\ first' = TRUE
    /\ log' = <<>>
    /\ run' = 0
    /\ UNCHANGED <<develop_mode, backup_index, process_exit>>

\* let (local_backup_groups, local_ok) = get_backup_groups(&local_storage)?;
\* (line 99)
JobListLocal ==
    /\ main_pc = "job_list_local"
    /\ \/ /\ local_groups' = local_storage
          /\ main_pc' = "job_new_provider"
          /\ UNCHANGED <<backup_index, exit_code, process_exit, job_log>>
          /\ UNCHANGED <<develop_mode, local_storage, cloud_storage,
                         max_backup_groups, cloud_groups, target_groups, pl_pc,
                         pl_result, group_name, backup_name, cloud_backups,
                         first, log, run>>
       \/ JobReturns("err")
    /\ UNCHANGED not_main_vars

\* Storage::new(Dropbox::new(&access_token)?, &backup_config.dst)  (103-106)
JobNewProvider ==
    /\ main_pc = "job_new_provider"
    /\ \/ /\ main_pc' = "job_list_cloud"
          /\ UNCHANGED <<backup_index, exit_code, process_exit, job_log>>
          /\ UNCHANGED planner_vars
       \/ JobReturns("err")
    /\ UNCHANGED not_main_vars

\* let (cloud_backup_groups, cloud_ok) = get_backup_groups(&cloud_storage)?;
\* then sync::sync_backups(...) is entered  (lines 107-113).
JobListCloud ==
    /\ main_pc = "job_list_cloud"
    /\ \/ /\ cloud_groups' = cloud_storage
          /\ pl_pc' = "plan"
          /\ main_pc' = "job_sync"
          /\ UNCHANGED <<backup_index, exit_code, process_exit, job_log>>
          /\ UNCHANGED <<develop_mode, local_storage, cloud_storage,
                         max_backup_groups, local_groups, target_groups,
                         pl_result, group_name, backup_name, cloud_backups,
                         first, log, run>>
       \/ JobReturns("err")
    /\ UNCHANGED not_main_vars

\* sync::sync_backups has returned; the cloud is listed again for the check of
\* the backups: a failure of that listing is logged and the job returns Ok(()),
\* as it does after the check  (lines 115-125).
JobCheckCloud ==
    /\ main_pc = "job_sync"
    /\ pl_pc = "done"
    /\ JobReturns("ok")
    /\ UNCHANGED not_main_vars

\* The loop is over: Ok(exit_code), and main() exits with it  (lines 53-54, 77).
Exit ==
    /\ main_pc = "loop"
    /\ backup_index = NumJobs
    /\ main_pc' = "exited"
    /\ process_exit' = exit_code
    /\ UNCHANGED <<backup_index, exit_code, job_log>>
    /\ UNCHANGED <<planner_vars, not_main_vars>>

MainNext ==
    \/ AcquireLock
    \/ StartJob
    \/ JobListLocal
    \/ JobNewProvider
    \/ JobListCloud
    \/ Plan
    \/ SkipEmptyGroup
    \/ EnterCloudGroup
    \/ CreateGroup
    \/ EndGroups
    \/ DevelopSkipFirst
    \/ SkipUploaded
    \/ UploadBackup
    \/ EndBackups
    \/ DeleteGroup
    \/ KeepGroup
    \/ EndDeletes
    \/ JobCheckCloud
    \/ Exit

(***************************************************************************)
(* Processes started on the same configuration file: main.rs, run() and    *)
(* acquire_lock()                                                          *)
(***************************************************************************)
Procs == 1..NumProcs
NoHolder == 0

\* fcntl::flock(fd, FlockArg::LockExclusiveNonblock): granted iff no other
\* open file description holds the lock, EAGAIN otherwise (lines 84-92).
flock_always(holder) == TRUE
flock(holder) == holder = NoHolder

LockIdle ==
    /\ lock_holder = NoHolder
    /\ proc_pc = [p \in Procs |-> "idle"]
    /\ proc_jobs = [p \in Procs |-> 0]
    /\ proc_code = [p \in Procs |-> 0]
    /\ proc_exit = [p \in Procs |-> NotExited]

\* Every process has been started and is about to call acquire_lock().
LockInit ==
    /\ lock_holder = NoHolder
    /\ proc_pc = [p \in Procs |-> "acquire_lock"]
    /\ proc_jobs = [p \in Procs |-> 0]
    /\ proc_code = [p \in Procs |-> 0]
    /\ proc_exit = [p \in Procs |-> NotExited]

\* let _lock = acquire_lock(&config.path)?; let mut exit_code = 0;
\* (lines 64-66, 80-95). On EAGAIN run() returns the error and main() exits
\* with 1 (lines 55-58).
ProcAcquireLock(p) ==
    /\ proc_pc[p] = "acquire_lock"
    /\ IF flock(lock_holder)
       THEN /\ lock_holder' = p
            /\ proc_pc' = [proc_pc EXCEPT ![p] = "loop"]
            /\ proc_code' = [proc_code EXCEPT ![p] = 0]
            /\ UNCHANGED proc_exit
       ELSE /\ proc_pc' = [proc_pc EXCEPT ![p] = "exited"]
            /\ proc_exit' = [proc_exit EXCEPT ![p] = 1]
            /\ UNCHANGED <<lock_holder, proc_code>>
    /\ UNCHANGED proc_jobs
    /\ UNCHANGED not_lock_vars

\* One iteration of `for backup in config.backups.iter()` (lines 68-75).
ProcRunJob(p) ==
    /\ proc_pc[p] = "loop"
    /\ proc_jobs[p] < NumJobs
    /\ proc_jobs' = [proc_jobs EXCEPT ![p] = @ + 1]
    /\ \E result \in {"ok", "err"} :
          proc_code' = [proc_code EXCEPT ![p] = IF result = "err" THEN 1 ELSE @]
    /\ UNCHANGED <<lock_holder, proc_pc, proc_exit>>
    /\ UNCHANGED not_lock_vars

\* Ok(exit_code): `_lock` goes out of scope, the file is closed and with it
\* the lock is released; main() exits with the code (lines 53-54, 77).
ProcExit(p) ==
    /\ proc_pc[p] = "loop"
    /\ proc_jobs[p] = NumJobs
    /\ proc_pc' = [proc_pc EXCEPT ![p] = "exited"]
    /\ proc_exit' = [proc_exit EXCEPT ![p] = proc_code[p]]
    /\ lock_holder' = IF lock_holder = p THEN NoHolder ELSE lock_holder
    /\ UNCHANGED <<proc_jobs, proc_code>>
    /\ UNCHANGED not_lock_vars

LockNext ==
    \/ \E p \in Procs : ProcAcquireLock(p)
    \/ \E p \in Procs : ProcRunJob(p)
    \/ \E p \in Procs : ProcExit(p)

(***************************************************************************)
(* Encryptor: encryptor.rs. The owner of the Encryptor, the gpg subprocess, *)
(* the stdout reader thread and the consumer of the ChunkReceiver.          *)
(***************************************************************************)
\* Option::None of Encryptor::result.
NoResult == "none"

\* The messages of the errors that can be recorded.
WriteFailed == "write failed"
FlushFailed == "flush failed"
GpgError == "gpg error: bad passphrase"
GpgExitCode == "gpg process has terminated with an error exit code"
ConnectionClosed == "Connection is closed"
PassphraseFailed == "Failed to pass encryption passphrase to gpg"

enc_owner_vars == <<enc_pc, enc_caller, enc_local_result, enc_written, enc_calls>>
enc_object_vars == <<enc_stdin, enc_stdout_reader, enc_chunks_tx, enc_result>>
gpg_vars == <<gpg_state, gpg_stderr, gpg_emitted>>
rd_vars == <<rd_pc, rd_result>>
enc_channel_vars == <<enc_chunks, enc_taken, enc_rx>>

\* An item of the ciphertext channel: Ok(chunk) with the number of the chunk,
\* or Err(error) with its message.
EncChunk(n) == [kind |-> "chunk", n |-> n, msg |-> ""]
EncError(msg) == [kind |-> "error", n |-> 0, msg |-> msg]

\* if let Some(ref result) = self.result  (lines 132, 142)
recorded_never == FALSE
recorded == enc_result # NoResult

\* match *self.result.as_ref().unwrap() { Ok(()) => Ok(()),
\*     Err(ref err) => Err(err.to_string().into()) }  (lines 117-120), given
\* what self.result holds.
close_returns_arg(res, arg) == arg
close_returns(res, arg) == res

\* let _ = encrypted_chunks_tx.send(Err(...))  (lines 107-110): Sink::send
\* only builds the Send future, which owns the sender and the item; nothing
\* is put into the channel before the future is polled, and it is dropped
\* unpolled.
send_unpolled(chunks, item) == chunks

\* tx.send(Ok(...)).wait()  (line 203): the future is driven to completion.
send_wait(chunks, item) == Append(chunks, item)

\* The bounded futures channel lets a sender put one item more than the
\* buffer, then parks it until the receiver has taken an item.
enc_has_room_always == TRUE
enc_has_room == Len(enc_chunks) - enc_taken < EncChannelBuffer + 1

\* terminate_gpg(pid)  (lines 216-221)
terminate_gpg_not(state) == state
terminate_gpg(state) == IF state = "running" THEN "killed" ELSE state

\* The subprocess emits its overhead around the payload and output for what
\* it has read from its stdin.
gpg_has_output == gpg_state = "running" /\ gpg_emitted < 1 + enc_written

EncIdle ==
    /\ enc_pc = "idle"
    /\ enc_caller = "none"
    /\ enc_stdin = "none"
    /\ enc_stdout_reader = "none"
    /\ enc_chunks_tx = "none"
    /\ enc_result = NoResult
    /\ enc_local_result = "ok"
    /\ enc_written = 0
    /\ enc_calls = <<>>
    /\ gpg_state = "exited_ok"
    /\ gpg_stderr = ""
    /\ gpg_emitted = 0
    /\ rd_pc = "idle"
    /\ rd_result = "running"
    /\ enc_chunks = <<>>
    /\ enc_taken = 0
    /\ enc_rx = "dropped"

\* Encryptor::new has spawned gpg and the reader thread and built the
\* Encryptor (lines 35-71); it is about to write the passphrase.
EncInit ==
    /\ enc_pc = "new"
    /\ enc_caller = "none"
    /\ enc_stdin = "some"
    /\ enc_stdout_reader = "some"
    /\ enc_chunks_tx = "some"
    /\ enc_result = NoResult
    /\ enc_local_result = "ok"
    /\ enc_written = 0
    /\ enc_calls = <<>>
    /\ gpg_state = "running"
    /\ gpg_stderr = ""
    /\ gpg_emitted = 0
    /\ rd_pc = "fill_buf"
    /\ rd_result = "running"
    /\ enc_chunks = <<>>
    /\ enc_taken = 0
    /\ enc_rx = "held"

\* Who holds what after a call on the Encryptor has returned: write and flush
\* borrow it, finish and drop consume it, a failed new never hands it out.
AfterCall_borrows(caller) == "ready"
AfterCall(caller) == IF caller \in {"write", "flush"} THEN "ready" ELSE "gone"

\* What the call that entered close() returns, given close's return value
\* (lines 75-76, 83, 126, 137, 147).
CallReturns_of_close(caller, ret) == ret
CallReturns(caller, ret) ==
    IF caller = "new" /\ ret = "ok" THEN PassphraseFailed ELSE ret

\* A call returns `ret` to the owner; `touched` tells whether it used stdin.
Returned(caller, ret, touched) ==
    /\ enc_calls' = Append(enc_calls, [op |-> caller, ret |-> ret, stdin |-> touched])
    /\ enc_pc' = AfterCall(caller)

\* self.close(result): entered with self.result unset it starts the teardown,
\* otherwise it returns what self.result holds  (lines 86-87, 117-120).
EnterClose(caller, arg, touched) ==
    IF enc_result = NoResult
    THEN /\ enc_pc' = "close_stdin"
         /\ enc_caller' = caller
         /\ enc_local_result' = arg
         /\ UNCHANGED enc_calls
    ELSE /\ Returned(caller, CallReturns(caller, close_returns(enc_result, arg)), touched)
         /\ UNCHANGED <<enc_caller, enc_local_result>>

\* passphrase_write_fd.write_all(..).and_then(|_| flush())  (lines 73-79)
NewPassphrase ==
    /\ enc_pc = "new"
    /\ \/ /\ enc_pc' = "ready"
          /\ enc_rx' = "open"
          /\ UNCHANGED <<enc_caller, enc_local_result, enc_calls>>
       \/ /\ EnterClose("new", "ok", FALSE)
          /\ UNCHANGED enc_rx
    /\ UNCHANGED <<enc_written, enc_object_vars, gpg_vars, rd_vars, enc_chunks, enc_taken>>
    /\ UNCHANGED not_encryptor_vars

\* impl io::Write for Encryptor: write() and flush()  (lines 131-149). The
\* pipe to the subprocess can fail once the subprocess is gone.
WriteOrFlush(op, failure) ==
    /\ enc_pc = "ready"
    /\ Len(enc_calls) < MaxCalls
    /\ IF recorded
       THEN /\ Returned(op, enc_result, FALSE)
            /\ UNCHANGED <<enc_caller, enc_local_result, enc_written>>
       ELSE \/ /\ Returned(op, "ok", TRUE)
               /\ enc_written' = IF op = "write" THEN enc_written + 1 ELSE enc_written
               /\ UNCHANGED <<enc_caller, enc_local_result>>
            \/ /\ gpg_state # "running"
               /\ EnterClose(op, failure, TRUE)
               /\ UNCHANGED enc_written
    /\ UNCHANGED <<enc_object_vars, gpg_vars, rd_vars, enc_channel_vars>>
    /\ UNCHANGED not_encryptor_vars

Write == WriteOrFlush("write", WriteFailed)

Flush == WriteOrFlush("flush", FlushFailed)

\* pub fn finish(mut self)  (lines 82-84)
Finish ==
    /\ enc_pc = "ready"
    /\ EnterClose("finish", "ok", FALSE)
    /\ UNCHANGED <<enc_written, enc_object_vars, gpg_vars, rd_vars, enc_channel_vars>>
    /\ UNCHANGED not_encryptor_vars

\* impl Drop for Encryptor  (lines 124-128): the owner lets go of the
\* Encryptor without finish().
DropEncryptor ==
    /\ enc_pc = "ready"
    /\ EnterClose("drop", "ok", FALSE)
    /\ UNCHANGED <<enc_written, enc_object_vars, gpg_vars, rd_vars, enc_channel_vars>>
    /\ UNCHANGED not_encryptor_vars

\* close(): stdin is taken, flushed and dropped  (lines 90-97).
CloseStdin ==
    /\ enc_pc = "close_stdin"
    /\ enc_pc' = "close_join"
    /\ enc_stdin' = "none"
    /\ \/ UNCHANGED enc_local_result
       \/ /\ gpg_state # "running"
          /\ enc_local_result' = FlushFailed
    /\ UNCHANGED <<enc_caller, enc_written, enc_calls, enc_stdout_reader,
                   enc_chunks_tx, enc_result, gpg_vars, rd_vars, enc_channel_vars>>
    /\ UNCHANGED not_encryptor_vars

\* close(): the reader thread is joined, its error becomes the result and
\* the subprocess is terminated; the sender is taken, the error is handed to
\* send(); self.result is set and returned  (lines 99-120).
CloseJoin ==
    /\ enc_pc = "close_join"
    /\ rd_pc = "done"
    /\ LET res == IF rd_result = "ok" THEN enc_local_result ELSE rd_result
       IN /\ enc_local_result' = res
          /\ gpg_state' = IF rd_result = "ok" THEN gpg_state ELSE terminate_gpg(gpg_state)
          /\ enc_chunks' = IF res = "ok" THEN enc_chunks
                           ELSE send_unpolled(enc_chunks, EncError(res))
          /\ enc_result' = res
          /\ Returned(enc_caller, CallReturns(enc_caller, close_returns(res, enc_local_result)),
                      enc_caller \in {"write", "flush"})
    /\ enc_stdout_reader' = "none"
    /\ enc_chunks_tx' = "none"
    /\ enc_rx' = IF enc_caller = "new" THEN "dropped" ELSE enc_rx
    /\ UNCHANGED <<enc_caller, enc_written, enc_stdin, gpg_stderr, gpg_emitted,
                   rd_vars, enc_taken>>
    /\ UNCHANGED not_encryptor_vars

\* The subprocess ends: with success only after its stdin was closed, with an
\* error at any time; it may have written to its stderr.
GpgExit ==
    /\ gpg_state = "running"
    /\ \/ /\ enc_stdin = "none"
          /\ gpg_state' = "exited_ok"
       \/ gpg_state' = "exited_err"
    /\ gpg_stderr' \in {"", "bad passphrase"}
    /\ UNCHANGED <<gpg_emitted, enc_owner_vars, enc_object_vars, rd_vars, enc_channel_vars>>
    /\ UNCHANGED not_encryptor_vars

\* read_data: stdout.fill_buf() gives the next chunk, or nothing at the end of
\* the subprocess's output; then `tx` is dropped  (lines 193-198, 213).
ReaderFillBuf ==
    /\ rd_pc = "fill_buf"
    /\ \/ /\ gpg_has_output
          /\ gpg_emitted' = gpg_emitted + 1
          /\ rd_pc' = "send"
       \/ /\ gpg_state # "running"
          /\ rd_pc' = "join_stderr"
          /\ UNCHANGED gpg_emitted
    /\ UNCHANGED <<gpg_state, gpg_stderr, rd_result, enc_owner_vars, enc_object_vars,
                   enc_channel_vars>>
    /\ UNCHANGED not_encryptor_vars

\* tx = tx.send(Ok(data)).wait().map_err(..)?; on failure stdout_reader
\* terminates the subprocess and returns the error  (lines 171-175, 203-206).
ReaderSend ==
    /\ rd_pc = "send"
    /\ \/ /\ enc_rx # "dropped"
          /\ enc_has_room
          /\ enc_chunks' = send_wait(enc_chunks, EncChunk(gpg_emitted))
          /\ rd_pc' = "fill_buf"
          /\ UNCHANGED <<rd_result, gpg_state>>
       \/ /\ enc_rx = "dropped"
          /\ gpg_state' = terminate_gpg(gpg_state)
          /\ rd_result' = ConnectionClosed
          /\ rd_pc' = "done"
          /\ UNCHANGED enc_chunks
    /\ UNCHANGED <<gpg_stderr, gpg_emitted, enc_taken, enc_rx, enc_owner_vars,
                   enc_object_vars>>
    /\ UNCHANGED not_encryptor_vars

\* util::join_thread(stderr_reader)?; gpg.wait(); status.success()
\* (lines 177-186): a non-empty stderr is the error, then the exit status.
ReaderFinish ==
    /\ rd_pc = "join_stderr"
    /\ gpg_state # "running"
    /\ rd_pc' = "done"
    /\ rd_result' = IF gpg_stderr # "" THEN GpgError
                    ELSE IF gpg_state = "exited_ok" THEN "ok"
                    ELSE GpgExitCode
    /\ UNCHANGED <<gpg_vars, enc_owner_vars, enc_object_vars, enc_channel_vars>>
    /\ UNCHANGED not_encryptor_vars

\* The consumer of the ChunkReceiver takes the next item.
EncConsumerRecv ==
    /\ enc_rx = "open"
    /\ enc_taken < Len(enc_chunks)
    /\ enc_taken' = enc_taken + 1
    /\ UNCHANGED <<enc_chunks, enc_rx, enc_owner_vars, enc_object_vars, gpg_vars, rd_vars>>
    /\ UNCHANGED not_encryptor_vars

\* The consumer drops the ChunkReceiver.
EncConsumerDropRx ==
    /\ enc_rx = "open"
    /\ enc_rx' = "dropped"
    /\ UNCHANGED <<enc_chunks, enc_taken, enc_owner_vars, enc_object_vars, gpg_vars, rd_vars>>
    /\ UNCHANGED not_encryptor_vars

EncryptorNext ==
    \/ NewPassphrase
    \/ Write
    \/ Flush
    \/ Finish
    \/ DropEncryptor
    \/ CloseStdin
    \/ CloseJoin
    \/ GpgExit
    \/ ReaderFillBuf
    \/ ReaderSend
    \/ ReaderFinish
    \/ EncConsumerRecv
    \/ EncConsumerDropRx

(***************************************************************************)
(* HTTP transport, the parsing of an error response: http_client.rs and    *)
(* http_client/client.rs                                                   *)
(***************************************************************************)
\* The characters of a body: a letter, a period, a space and a line feed.
LF == "LF"
BodyChars == {"a", ".", " ", LF}
RECURSIVE StringsUpTo(_)
StringsUpTo(n) ==
    IF n = 0 THEN {<<>>}
    ELSE LET shorter == StringsUpTo(n - 1)
         IN shorter \cup {Append(str, c) : str \in shorter, c \in BodyChars}
Bodies == StringsUpTo(MaxBodyLen)

\* hyper::StatusCode: Ok, a redirection, a client error and a server error.
Statuses == {"200 OK", "302 Found", "413 Payload Too Large", "500 Internal Server Error"}
is_client_error(status) == status = "413 Payload Too Large"
is_server_error(status) == status = "500 Internal Server Error"
\* status.to_string(), as a string of one piece.
status_to_string(status) == <<status>>

NoContentType == "none"
ContentTypes == {NoContentType, "text/plain", "application/json", "text/html"}

\* body.lines().next().unwrap_or(""): the text before the first line feed; a
\* body without any line has no first line.
RECURSIVE first_line(_)
first_line(body) ==
    IF body = <<>> \/ Head(body) = LF THEN <<>>
    ELSE <<Head(body)>> \o first_line(Tail(body))

\* str::trim_right_matches('.')
RECURSIVE trim_right_matches_period(_)
trim_right_matches_period(str) ==
    IF str # <<>> /\ str[Len(str)] = "." THEN trim_right_matches_period(SubSeq(str, 1, Len(str) - 1))
    ELSE str

\* str::trim(): white space is removed at both ends.
RECURSIVE trim_right(_)
trim_right(str) ==
    IF str # <<>> /\ str[Len(str)] = " " THEN trim_right(SubSeq(str, 1, Len(str) - 1))
    ELSE str
RECURSIVE trim_left(_)
trim_left(str) ==
    IF str # <<>> /\ Head(str) = " " THEN trim_left(Tail(str)) ELSE str
trim(str) == trim_left(trim_right(str))

\* Err!(...): a Generic error with its message, a sequence of pieces.
Generic(msg) == [kind |-> "Generic", msg |-> msg]
HttpOk == [kind |-> "Ok", msg |-> <<>>]
ServerReturnedAnError(text) == Generic(<<"Server returned an error: ">> \o text)
InvalidContentType(status, content_type) ==
    Generic(<<"Server returned ", status, " error with an invalid content type">>
            \o (IF content_type = NoContentType THEN <<>> ELSE <<": ", content_type>>))

\* let mut error = body.lines().next().unwrap_or("").trim_right_matches('.')
\*     .trim().to_owned(); if error.is_empty() { error = status.to_string(); }
\* (http_client.rs:103-106, client.rs:237-240)
error_text(status, body) ==
    LET error == trim(trim_right_matches_period(first_line(body)))
    IN IF error = <<>> THEN status_to_string(status) ELSE error

\* fn parse_error  (http_client.rs:98-112)
parse_error(status, content_type, body) ==
    IF content_type = NoContentType THEN InvalidContentType(status, content_type)
    ELSE IF content_type = "text/plain" THEN ServerReturnedAnError(error_text(status, body))
    ELSE InvalidContentType(status, content_type)

\* fn parse_api_error  (client.rs:230-249). No body over BodyChars is JSON, so
\* serde_json::from_str fails on all of them.
parse_api_error(status, content_type, body) ==
    IF content_type = NoContentType THEN InvalidContentType(status, content_type)
    ELSE IF content_type = "text/plain" THEN ServerReturnedAnError(error_text(status, body))
    ELSE IF content_type = "application/json"
         THEN Generic(<<"Server returned an invalid JSON response: ">> \o body)
    ELSE InvalidContentType(status, content_type)

HttpIdle ==
    /\ http_pc = "idle"
    /\ http_status = "200 OK"
    /\ http_content_type = NoContentType
    /\ http_body = <<>>
    /\ http_result = HttpOk

\* A request has been sent.
HttpInit ==
    /\ http_pc = "request"
    /\ http_status = "200 OK"
    /\ http_content_type = NoContentType
    /\ http_body = <<>>
    /\ http_result = HttpOk

\* The response has arrived and its body has been read
\* (http_client.rs:75-84, client.rs:152-172).
HttpResponse ==
    /\ http_pc = "request"
    /\ http_pc' = "response"
    /\ http_status' \in Statuses
    /\ http_content_type' \in ContentTypes
    /\ http_body' \in Bodies
    /\ UNCHANGED http_result
    /\ UNCHANGED not_http_vars

\* HttpClient::json_request of http_client.rs: if status != StatusCode::Ok
\* { ... }  Ok(())  (lines 86-94)
JsonRequestResult ==
    /\ http_pc = "response"
    /\ http_pc' = "done"
    /\ http_result' =
          IF http_status # "200 OK"
          THEN IF is_client_error(http_status) \/ is_server_error(http_status)
               THEN parse_error(http_status, http_content_type, http_body)
               ELSE ServerReturnedAnError(status_to_string(http_status))
          ELSE HttpOk
    /\ UNCHANGED <<http_status, http_content_type, http_body>>
    /\ UNCHANGED not_http_vars

\* parse_api_error of http_client/client.rs applied to the response of a
\* client or server error.
ParseApiError ==
    /\ http_pc = "response"
    /\ is_client_error(http_status) \/ is_server_error(http_status)
    /\ http_pc' = "done_api"
    /\ http_result' = parse_api_error(http_status, http_content_type, http_body)
    /\ UNCHANGED <<http_status, http_content_type, http_body>>
    /\ UNCHANGED not_http_vars

HttpNext ==
    \/ HttpResponse
    \/ JsonRequestResult
    \/ ParseApiError

(***************************************************************************)
(* Specifications.                                                         *)
(***************************************************************************)
SplitterSpecInit == SplitterInit /\ PlannerIdle /\ MainIdle /\ LockIdle /\ EncIdle /\ HttpIdle
SplitterSpec == SplitterSpecInit /\ [][SplitterNext]_vars

PlannerSpecInit == SplitterIdle /\ PlannerInit /\ MainIdle /\ LockIdle /\ EncIdle /\ HttpIdle
PlannerSpec == PlannerSpecInit /\ [][PlannerNext]_vars

MainSpecInit ==
    /\ SplitterIdle
    /\ develop_mode \in BOOLEAN
    /\ PlannerLocalsIdle
    /\ MainInit
    /\ LockIdle
    /\ EncIdle
    /\ HttpIdle
MainSpec == MainSpecInit /\ [][MainNext]_vars

LockSpecInit == SplitterIdle /\ PlannerIdle /\ MainIdle /\ LockInit /\ EncIdle /\ HttpIdle
LockSpec == LockSpecInit /\ [][LockNext]_vars

EncryptorSpecInit == SplitterIdle /\ PlannerIdle /\ MainIdle /\ LockIdle /\ EncInit /\ HttpIdle
EncryptorSpec == EncryptorSpecInit /\ [][EncryptorNext]_vars

HttpSpecInit ==
    SplitterIdle /\ PlannerIdle /\ MainIdle /\ LockIdle /\ EncIdle /\ HttpInit
HttpSpec == HttpSpecInit /\ [][HttpNext]_vars

\* Either stage on its own: a run of the splitter with its consumer, or a run
\* of the encryptor with its consumer.
StagesSpecInit ==
    /\ PlannerIdle /\ MainIdle /\ LockIdle /\ HttpIdle
    /\ \/ SplitterInit /\ EncIdle
       \/ SplitterIdle /\ EncInit
StagesNext == SplitterNext \/ EncryptorNext
StagesSpec == StagesSpecInit /\ [][StagesNext]_vars

\* The splitter thread keeps running while it is not blocked (the producer
\* sends its next frame or hangs up), and the consumer keeps receiving the
\* chunks of the sub-stream it holds. The consumer's recv() on the outer
\* channel is the rendezvous inside SendStream and SendEof. Nothing obliges the
\* consumer to drop a receiver.
SplitterFairSpec ==
    /\ SplitterSpecInit
    /\ [][SplitterNext]_vars
    /\ WF_vars(SplitterThread)
    /\ WF_vars(ConsumerRecvChunk)

\* The threads of the encryptor keep running: close() goes on while it is not
\* blocked and so does the reader thread. The subprocess is taken to end: it
\* ends by itself once its stdin is closed, or with an error before.
EncryptorFairSpec ==
    /\ EncryptorSpecInit
    /\ [][EncryptorNext]_vars
    /\ WF_vars(CloseStdin)
    /\ WF_vars(CloseJoin)
    /\ WF_vars(GpgExit)
    /\ WF_vars(ReaderFillBuf)
    /\ WF_vars(ReaderSend)
    /\ WF_vars(ReaderFinish)

\* The threads of the encryptor keep running and the consumer keeps receiving,
\* but nothing obliges the subprocess to end: it may hang with its stdin
\* closed.
EncryptorHangSpec ==
    /\ EncryptorSpecInit
    /\ [][EncryptorNext]_vars
    /\ WF_vars(CloseStdin)
    /\ WF_vars(CloseJoin)
    /\ WF_vars(ReaderFillBuf)
    /\ WF_vars(ReaderSend)
    /\ WF_vars(ReaderFinish)
    /\ WF_vars(EncConsumerRecv)

(***************************************************************************)
(* Properties of the stream splitter.                                      *)
(***************************************************************************)
\* The positions of the sub-stream handles among the items of the outer channel.
SubStreams == {i \in 1..Len(chunk_streams) : chunk_streams[i].kind = "Receiver"}

\* The bytes sent into the sub-stream at position i, in the order sent.
StreamBytes(i) ==
    Flatten([k \in 1..Len(chunk_streams[i].chunks) |-> chunk_streams[i].chunks[k].bytes])

\* All bytes emitted: sub-streams in order, chunks in order inside each.
EmittedBytes ==
    Flatten([i \in 1..Len(chunk_streams) |-> StreamBytes(i)])

\* The number of bytes sent into the sub-streams before position i.
EmittedBefore(i) ==
    Len(Flatten([j \in 1..(i - 1) |-> StreamBytes(j)]))

\* splitter() returned Ok(()) after reading an Eof frame.
EndedByEof ==
    /\ sp_pc = "done"
    /\ sp_result = "ok"
    /\ input # <<>>
    /\ input[Len(input)].type = "EofWithChecksum"

\* C1: once the splitter has read Payload frames and then Eof and returned,
\* and also whenever it is between two frames, the concatenation of all chunks
\* of all sub-streams in emission order equals the concatenation of the payload
\* bytes read: no byte is lost, duplicated or reordered.
C1_ConcatenationPreserved ==
    (sp_pc = "recv" \/ EndedByEof) => EmittedBytes = PayloadBytes(input)

\* A run over two payload frames and Eof that cut a frame across sub-streams.
C1_Witness ==
    /\ EndedByEof
    /\ Len(input) = 3
    /\ Cardinality(SubStreams) >= 2
    /\ Len(PayloadBytes(input)) >= 3
    /\ \E i \in SubStreams : Len(chunk_streams[i].chunks) >= 2

\* C2: in every state, for every sub-stream emitted, the lengths of the chunks
\* sent into it sum to at most stream_max_size.
C2_SubStreamWithinCap ==
    \A i \in SubStreams : Len(StreamBytes(i)) <= stream_max_size

\* A sub-stream filled to the cap by two chunks, the second cut from a frame
\* that did not fit.
C2_Witness ==
    \E i \in SubStreams :
        /\ Len(chunk_streams[i].chunks) = 2
        /\ Len(StreamBytes(i)) = stream_max_size
        /\ Len(chunk_streams[i].chunks[2].bytes) < Len(input[Len(input)].bytes)
        /\ \E j \in SubStreams : j > i /\ chunk_streams[j].chunks # <<>>

\* C3: the start offsets of the sub-streams are strictly increasing, the first
\* is 0, and each equals the number of bytes sent into all earlier sub-streams.
C3_StartOffsets ==
    \A i \in SubStreams :
        /\ chunk_streams[i].start = EmittedBefore(i)
        /\ i = 1 => chunk_streams[i].start = 0
        /\ \A j \in SubStreams : j < i => chunk_streams[j].start < chunk_streams[i].start

\* Three sub-streams, the third opened after one exactly full and one cut.
C3_Witness ==
    /\ Cardinality(SubStreams) >= 3
    /\ stream_max_size >= 2
    /\ chunk_streams[3].kind = "Receiver"
    /\ chunk_streams[3].start = 2 * stream_max_size
    /\ Len(chunk_streams[1].chunks) = 1
    /\ Len(chunk_streams[2].chunks) = 2

\* C4: the terminal EofWithCheckSum record carries the total number of payload
\* bytes consumed as its offset and the checksum of the input's Eof frame.
C4_EofRecord ==
    \A i \in 1..Len(chunk_streams) :
        chunk_streams[i].kind = "EofWithCheckSum" =>
            /\ input[Len(input)].type = "EofWithChecksum"
            /\ chunk_streams[i].start = Len(PayloadBytes(input))
            /\ chunk_streams[i].checksum = input[Len(input)].checksum

\* The payload totals exactly twice the cap: the record's offset is that total.
C4_Witness ==
    /\ EndedByEof
    /\ chunk_streams[Len(chunk_streams)].kind = "EofWithCheckSum"
    /\ chunk_streams[Len(chunk_streams)].checksum = "c2"
    /\ chunk_streams[Len(chunk_streams)].start = 2 * stream_max_size
    /\ Cardinality(SubStreams) = 2

(***************************************************************************)
(* Properties of the sync planner.                                         *)
(***************************************************************************)
\* sync_backups has computed target_groups in this run.
Planned ==
    \/ pl_pc \in {"groups", "backups", "deletes"}
    \/ pl_pc = "done" /\ pl_result = "ok"

\* The per-key union of the two listings.
UnionOfListings ==
    [g \in DOMAIN local_groups \cup DOMAIN cloud_groups |->
        (IF g \in DOMAIN local_groups THEN local_groups[g] ELSE {})
        \cup (IF g \in DOMAIN cloud_groups THEN cloud_groups[g] ELSE {})]

NonEmptyGroups(groups) == {g \in DOMAIN groups : groups[g] # {}}

\* The k greatest elements of a set of names (all of it when it has fewer).
Greatest(S, k) == {g \in S : Cardinality({h \in S : h > g}) < k}

\* The ascending sequence of a set of names.
RECURSIVE Ascending(_)
Ascending(S) ==
    IF S = {} THEN <<>>
    ELSE LET m == CHOOSE x \in S : \A y \in S : x <= y
         IN <<m>> \o Ascending(S \ {m})

\* The backups of group g whose upload was attempted by `calls`, in the order
\* attempted.
RECURSIVE UploadsIn(_, _)
UploadsIn(calls, g) ==
    IF calls = <<>> THEN <<>>
    ELSE (IF Head(calls).op = "upload" /\ Head(calls).group = g
          THEN <<Head(calls).backup>> ELSE <<>>)
         \o UploadsIn(Tail(calls), g)

UploadsAttempted(g) == UploadsIn(log, g)

Attempted(op, g) == \E i \in 1..Len(log) : log[i].op = op /\ log[i].group = g

\* C5: after planning with a cap K >= 1, the non-empty groups of the target
\* are the K greatest non-empty groups of the per-key union of the listings
\* (all of them when there are fewer than K), each with the union's backups;
\* empty groups do not count toward the cap.
C5_Retention ==
    Planned =>
        LET kept == Greatest(NonEmptyGroups(UnionOfListings), max_backup_groups)
        IN /\ NonEmptyGroups(target_groups) = kept
           /\ \A g \in kept : target_groups[g] = UnionOfListings[g]

\* The listings differ, their union has three non-empty groups and the cap of
\* two cut the oldest of them off.
C5_Witness ==
    /\ Planned
    /\ max_backup_groups = 2
    /\ Cardinality(NonEmptyGroups(UnionOfListings)) = 3
    /\ Cardinality(NonEmptyGroups(target_groups)) = 2
    /\ DOMAIN local_groups # DOMAIN cloud_groups

\* An empty group newer than the cut stays in the target without taking one
\* of the K places.
C5_WitnessEmptyGroup ==
    /\ Planned
    /\ \E g \in NonEmptyGroups(UnionOfListings) : g \notin DOMAIN target_groups
    /\ \E e \in DOMAIN target_groups : target_groups[e] = {}

\* C6: a run of the planner on the cloud state left by a run in which every
\* call succeeded makes no upload and no delete.
C6_SecondRunIsNoOp ==
    run = 2 => \A i \in 1..Len(log) : log[i].op \notin {"upload", "delete"}

\* C7: when the planner is done, for each target group it got to upload into
\* (the group was on cloud, or its creation succeeded) the uploads attempted
\* are exactly the group's target backups that are not in the cloud listing of
\* the group, in ascending order; for any other group nothing is uploaded; and
\* a group is created only when it is not on cloud.
C7_UploadsExactlyMissing ==
    /\ \A i \in 1..Len(log) :
          log[i].op = "create" => log[i].group \notin DOMAIN cloud_groups
    /\ (pl_pc = "done" /\ pl_result = "ok") =>
          \A g \in Groups :
              LET entered ==
                      /\ g \in NonEmptyGroups(target_groups)
                      /\ \/ g \in DOMAIN cloud_groups
                         \/ \E i \in 1..Len(log) :
                               log[i] = Call("create", g, None, TRUE)
                  missing ==
                      IF g \in DOMAIN target_groups
                      THEN target_groups[g] \ (IF g \in DOMAIN cloud_groups
                                               THEN cloud_groups[g] ELSE {})
                      ELSE {}
              IN UploadsAttempted(g) = (IF entered THEN Ascending(missing) ELSE <<>>)

\* C8: no cloud group whose key is in the target is ever deleted, and when the
\* planner is done every cloud group whose key is not in the target has been
\* deleted (a delete was issued for it).
C8_DeletesExactlyNonTarget ==
    /\ \A i \in 1..Len(log) :
          log[i].op = "delete" =>
              /\ log[i].group \in DOMAIN cloud_groups
              /\ Planned => log[i].group \notin DOMAIN target_groups
    /\ (pl_pc = "done" /\ pl_result = "ok") =>
          \A g \in DOMAIN cloud_groups :
              g \notin DOMAIN target_groups => Attempted("delete", g)

\* The three statements above in a build without debug assertions.
ReleaseBuild_C6 == ~develop_mode => C6_SecondRunIsNoOp
ReleaseBuild_C7 == ~develop_mode => C7_UploadsExactlyMissing
ReleaseBuild_C8 == ~develop_mode => C8_DeletesExactlyNonTarget

(***************************************************************************)
(* Properties of the orchestration loop.                                   *)
(***************************************************************************)
SomeJobFailed == \E i \in 1..Len(job_log) : job_log[i].result = "err"

\* C9: in the orchestration loop the jobs run in configuration order, none is
\* skipped whatever the earlier jobs returned, an error returned by a job's
\* sync makes exit_code 1 and nothing makes it 0 again; when the loop is left
\* every configured job has run.
C9_LoopContinues ==
    /\ \A i \in 1..Len(job_log) : job_log[i].job = i
    /\ SomeJobFailed => exit_code = 1
    /\ exit_code = 1 => SomeJobFailed
    /\ (main_pc = "exited" /\ process_exit # 1) => Len(job_log) = NumJobs
    /\ (main_pc = "exited" /\ SomeJobFailed) =>
          Len(job_log) = NumJobs /\ process_exit = 1

\* The first job failed, the second ran and succeeded, and the process exited
\* with 1.
C9_Witness ==
    /\ main_pc = "exited"
    /\ Len(job_log) = NumJobs
    /\ job_log[1].result = "err"
    /\ job_log[NumJobs].result = "ok"
    /\ process_exit = 1

\* C10: the process exits with 0 only if every configured backup was processed
\* without error: a job whose sync returned an error, or in which an upload, a
\* group creation or a group deletion failed, makes the final exit code 1.
C10_ExitCodeReflectsFailures ==
    (main_pc = "exited" /\ process_exit = 0) =>
        \A i \in 1..Len(job_log) :
            job_log[i].result = "ok" /\ ~job_log[i].failed_call

(***************************************************************************)
(* Properties of the lock on the configuration file.                       *)
(***************************************************************************)
PastLock == {p \in Procs : proc_pc[p] = "loop"}

\* C11: at most one process at a time is past lock acquisition; a process runs
\* jobs only while it holds the lock, from before its first job until all its
\* jobs are done; a process that finds the lock taken is not blocked (its
\* acquire step can be taken at once) and exits with code 1 having run no job.
C11_ExclusiveRun ==
    /\ Cardinality(PastLock) <= 1
    /\ \A p \in Procs :
        /\ proc_pc[p] = "loop" => lock_holder = p
        /\ proc_jobs[p] > 0 /\ proc_jobs[p] < NumJobs => lock_holder = p
        /\ (proc_pc[p] = "exited" /\ proc_jobs[p] < NumJobs) =>
              proc_jobs[p] = 0 /\ proc_exit[p] = 1
        /\ proc_pc[p] = "acquire_lock" => ENABLED ProcAcquireLock(p)

\* One process is in the middle of its jobs while a second invocation has
\* already failed on the lock and exited with 1 without running a job.
C11_Witness ==
    \E p, q \in Procs :
        /\ p # q
        /\ proc_pc[p] = "loop" /\ proc_jobs[p] = 1
        /\ proc_pc[q] = "exited" /\ proc_exit[q] = 1 /\ proc_jobs[q] = 0

(***************************************************************************)
(* Properties of the encryptor.                                            *)
(***************************************************************************)
EncCallIs(i, ops) == enc_calls[i].op \in ops
EncErrorItems == {i \in 1..Len(enc_chunks) : enc_chunks[i].kind = "error"}

\* C12: once a write or a flush on the encryptor has failed, the failure is
\* recorded in the encryptor and every later write and flush returns an error
\* with the recorded message without touching stdin; finish() returns that
\* message too, and it is called at most once.
C12_StickyFailure ==
    /\ \A i \in 1..Len(enc_calls) :
          (EncCallIs(i, {"write", "flush"}) /\ enc_calls[i].ret # "ok") =>
             /\ enc_result = enc_calls[i].ret
             /\ \A j \in (i + 1)..Len(enc_calls) :
                   /\ enc_calls[j].ret = enc_calls[i].ret
                   /\ EncCallIs(j, {"write", "flush"}) => ~enc_calls[j].stdin
    /\ Cardinality({i \in 1..Len(enc_calls) : EncCallIs(i, {"finish"})}) <= 1

\* A write failed, a later write or flush returned the recorded message
\* without touching stdin, and finish() returned it at the end.
C12_Witness ==
    /\ Len(enc_calls) = 3
    /\ EncCallIs(1, {"write"}) /\ enc_calls[1].ret # "ok" /\ enc_calls[1].stdin
    /\ EncCallIs(2, {"write", "flush"}) /\ enc_calls[2].ret = enc_calls[1].ret
    /\ EncCallIs(3, {"finish"}) /\ enc_calls[3].ret = enc_calls[1].ret
    /\ enc_pc = "gone"

\* C13: when the teardown of the encryptor has ended in an error and the
\* consumer still holds the ChunkReceiver, the channel ends with exactly one
\* error item, which carries the message of the failure and follows all the
\* chunks of ciphertext: the consumer never sees a silent end of the stream.
C13_TerminalErrorItem ==
    (enc_result \notin {NoResult, "ok"} /\ enc_rx = "open") =>
        /\ EncErrorItems = {Len(enc_chunks)}
        /\ enc_chunks[Len(enc_chunks)].msg = enc_result

\* Encryptor::new has returned on the path of the failed passphrase write.
NewFailed == enc_calls # <<>> /\ enc_calls[1].op = "new"
NewFailing == enc_caller = "new" /\ enc_pc \in {"close_stdin", "close_join"}

StreamSendDue == sp_pc \in {"send_stream", "send_eof"}
ChunkSendDue ==
    \/ sp_pc = "send_err"
    \/ sp_pc = "loop" /\ Len(data) > 0 /\ available_size > 0
CurChunkRxDropped ==
    IF chunk_streams = <<>> THEN FALSE ELSE chunk_streams[Cur].rx = "dropped"

C15_WitnessReader ==
    /\ rd_result = ConnectionClosed
    /\ enc_chunks # <<>>
    /\ gpg_state = "killed"
    /\ enc_calls # <<>>
    /\ enc_calls[Len(enc_calls)] = [op |-> "finish", ret |-> ConnectionClosed, stdin |-> FALSE]

(***************************************************************************)
(* Properties of the parsing of HTTP errors.                               *)
(***************************************************************************)
\* The first non-empty line of a body, and a text without its trailing
\* periods and white space, as the specification words them (white space at
\* the start of the line is taken to be removed as well).
RECURSIVE FirstNonEmptyLine(_)
FirstNonEmptyLine(body) ==
    IF body = <<>> THEN <<>>
    ELSE IF Head(body) = LF THEN FirstNonEmptyLine(Tail(body))
    ELSE first_line(body)
RECURSIVE WithoutTrailingPeriodsAndSpace(_)
WithoutTrailingPeriodsAndSpace(str) ==
    IF str # <<>> /\ str[Len(str)] \in {".", " "}
    THEN WithoutTrailingPeriodsAndSpace(SubSeq(str, 1, Len(str) - 1))
    ELSE str
SpecifiedErrorText(status, body) ==
    LET text == trim_left(WithoutTrailingPeriodsAndSpace(FirstNonEmptyLine(body)))
    IN IF text = <<>> THEN status_to_string(status) ELSE text

\* C16: for a response of a non-success status (a client or a server error,
\* the statuses whose body is parsed) with content type text/plain the
\* transport returns the Generic error "Server returned an error: "
\* followed by the first non-empty line of the body without its trailing
\* periods and white space, or by the status when that text is empty.
C16_TextPlainError ==
    (http_pc \in {"done", "done_api"}
     /\ (is_client_error(http_status) \/ is_server_error(http_status))
     /\ http_content_type = "text/plain") =>
        http_result = ServerReturnedAnError(SpecifiedErrorText(http_status, http_body))

\* The example of the specification: 413 with the body "a." gives the message
\* ending in "a" (the shape of "Too large." giving "Too large").
C16_ExampleHolds ==
    (http_pc \in {"done", "done_api"} /\ http_status = "413 Payload Too Large"
     /\ http_content_type = "text/plain" /\ http_body = <<"a", ".">>) =>
        http_result = ServerReturnedAnError(<<"a">>)

(***************************************************************************)
(* Properties of the end of the splitter's run.                            *)
(***************************************************************************)
\* The positions of the terminal records among the items of the outer channel.
EofRecords == {i \in 1..Len(chunk_streams) : chunk_streams[i].kind = "EofWithCheckSum"}

\* What has been emitted: the items of the outer channel and the chunks sent
\* into each sub-stream.
Emitted ==
    [i \in 1..Len(chunk_streams) |->
        [kind |-> chunk_streams[i].kind, start |-> chunk_streams[i].start,
         checksum |-> chunk_streams[i].checksum, chunks |-> chunk_streams[i].chunks]]

\* C17: the terminal EofWithCheckSum record is the last item of the outer
\* channel. When the splitter is about to send it, its chunk sender is dropped
\* and every sub-stream is closed; every sub-stream handle precedes the
\* record; and once the record is there the splitter has returned and no
\* handle and no chunk is emitted any more.
C17_EofRecordLast ==
    /\ [](sp_pc = "send_eof" =>
            /\ tx = "dropped"
            /\ EofRecords = {}
            /\ \A i \in SubStreams : ~chunk_streams[i].tx_open)
    /\ [](\A i \in EofRecords :
            /\ i = Len(chunk_streams)
            /\ SubStreams = 1..(i - 1)
            /\ \A j \in SubStreams : ~chunk_streams[j].tx_open
            /\ sp_pc = "done"
            /\ tx = "dropped")
    /\ [][EofRecords # {} => Emitted' = Emitted]_vars

\* The record was sent after two sub-streams that both carried chunks, and the
\* consumer then took the last chunk still in flight.
C17_Witness ==
    /\ EofRecords # {}
    /\ Cardinality(SubStreams) = 2
    /\ \A i \in SubStreams :
          chunk_streams[i].chunks # <<>> /\ HasRoom(chunk_streams[i])

\* The input ended otherwise than by Eof after payload frames: it carried an
\* error, or the producer hung up without Eof.
IllFormedInput ==
    \/ \E i \in 1..Len(input) : input[i].type = "Err"
    \/ /\ sp_pc = "done"
       /\ sp_result = "ok"
       /\ IF input = <<>> THEN TRUE ELSE input[Len(input)].type # "EofWithChecksum"

\* The consumer dropped the outer receiver or the receiver of a sub-stream.
ConsumerGaveUp ==
    \/ streams_rx = "dropped"
    \/ \E i \in SubStreams : chunk_streams[i].rx = "dropped"

\* C18: with a well-formed input (payload frames, then Eof) and a consumer
\* that keeps receiving every handle and every chunk, reading each sub-stream
\* to its end before it takes the next handle, the splitter is never stuck
\* (while it runs, it or the consumer can take a step) and eventually emits
\* the EofWithCheckSum record and returns success.
C18_EventuallyEof ==
    /\ []((sp_pc # "done" /\ ~ConsumerGaveUp) =>
            (ENABLED SplitterThread \/ ENABLED ConsumerRecvChunk))
    /\ <>(\/ EndedByEof /\ EofRecords # {}
          \/ IllFormedInput
          \/ ConsumerGaveUp)

\* A run to the record over the longest input, through three sub-streams,
\* with no receiver dropped.
C18_Witness ==
    /\ EndedByEof
    /\ EofRecords # {}
    /\ ~ConsumerGaveUp
    /\ ~IllFormedInput
    /\ Len(input) = MaxFrames
    /\ Cardinality(SubStreams) >= 3

\* The total payload of the input, and the number of sub-streams of at most
\* m bytes that t bytes need.
TotalPayload == Len(PayloadBytes(input))
CeilDiv(t, m) == (t + m - 1) \div m
ExpectedStreams ==
    IF CeilDiv(TotalPayload, stream_max_size) > 1
    THEN CeilDiv(TotalPayload, stream_max_size) ELSE 1

\* The splitter is handling a payload frame of no bytes.
AtZeroLengthFrame == sp_pc = "loop" /\ data = <<>>

\* C19: after a well-formed input of T payload bytes under the cap M the
\* splitter has emitted exactly max(1, ceil(T/M)) sub-stream handles, every
\* one but the last holding exactly M bytes and the last one the rest (so no
\* empty sub-stream trails a payload that ends on a multiple of M); T = M+1
\* gives two sub-streams of M and 1 bytes at offsets 0 and M; and the handling
\* of a payload frame of no bytes opens and closes no sub-stream and emits
\* nothing.
C19_SubStreamCount ==
    /\ [](EndedByEof =>
            LET n == Cardinality(SubStreams)
            IN /\ n = ExpectedStreams
               /\ SubStreams = 1..n
               /\ \A i \in 1..(n - 1) : Len(StreamBytes(i)) = stream_max_size
               /\ Len(StreamBytes(n)) = TotalPayload - (n - 1) * stream_max_size
               /\ (TotalPayload > 0 => Len(StreamBytes(n)) > 0)
               /\ (TotalPayload = stream_max_size + 1 =>
                     /\ n = 2
                     /\ Len(StreamBytes(1)) = stream_max_size
                     /\ Len(StreamBytes(2)) = 1
                     /\ chunk_streams[1].start = 0
                     /\ chunk_streams[2].start = stream_max_size))
    /\ [][AtZeroLengthFrame =>
            /\ Emitted' = Emitted
            /\ tx' = tx
            /\ \A i \in SubStreams : chunk_streams'[i].tx_open = chunk_streams[i].tx_open]_vars

\* A payload of M+1 bytes under a cap M of two bytes or more, read to Eof.
C19_Witness ==
    /\ EndedByEof
    /\ stream_max_size >= 2
    /\ TotalPayload = stream_max_size + 1
    /\ Cardinality(SubStreams) = 2

\* A payload that ends exactly on twice the cap, followed by a frame of
\* no bytes, read to Eof.
C19_WitnessExactMultiple ==
    /\ EndedByEof
    /\ TotalPayload = 2 * stream_max_size
    /\ Cardinality(SubStreams) = 2
    /\ \E k \in 2..Len(input) : input[k].type = "Payload" /\ input[k].bytes = <<>>

\* The splitter has read an error frame: the position of the first one in the
\* input.
ErrRead == \E k \in 1..Len(input) : input[k].type = "Err"
ErrPos ==
    CHOOSE k \in 1..Len(input) :
        input[k].type = "Err" /\ \A j \in 1..(k - 1) : input[j].type # "Err"

\* The error items sent into the sub-stream at position i.
ErrItems(i) ==
    {k \in 1..Len(chunk_streams[i].chunks) : chunk_streams[i].chunks[k].kind = "error"}
NoErrItem == \A i \in SubStreams : ErrItems(i) = {}

\* One error item has been sent: the last item of the last sub-stream, after
\* all the payload bytes read before the error frame.
ErrForwarded ==
    /\ chunk_streams[Cur].kind = "Receiver"
    /\ ErrItems(Cur) = {Len(chunk_streams[Cur].chunks)}
    /\ \A i \in SubStreams : i # Cur => ErrItems(i) = {}
    /\ ~chunk_streams[Cur].tx_open
    /\ EmittedBytes = PayloadBytes(SubSeq(input, 1, ErrPos - 1))

\* C20: once the splitter has read an error frame it sends one error item
\* into the sub-stream that is open (the send fails only when the consumer has
\* dropped that sub-stream's receiver, and the splitter then returns that
\* error), then takes one more item from the input: the end of the input makes
\* it return success, a further frame panics. It emits no EofWithCheckSum
\* record and no further sub-stream. Without an error frame no error item is
\* sent.
C20_ErrorFrame ==
    /\ [](~ErrRead => NoErrItem)
    /\ [](ErrRead =>
            /\ \A j \in 1..(ErrPos - 1) : input[j].type = "Payload"
            /\ Len(input) <= ErrPos + 1
            /\ EofRecords = {}
            /\ sp_pc \in {"send_err", "drain", "done"}
            /\ (sp_pc = "send_err" => NoErrItem /\ Len(input) = ErrPos)
            /\ (sp_pc = "drain" => ErrForwarded /\ Len(input) = ErrPos)
            /\ (sp_pc = "done" =>
                  \/ sp_result = "ok" /\ ErrForwarded /\ Len(input) = ErrPos
                  \/ sp_result = "panic" /\ ErrForwarded /\ Len(input) = ErrPos + 1
                  \/ /\ sp_result = "err_chunk"
                     /\ NoErrItem
                     /\ chunk_streams[Cur].rx = "dropped"
                     /\ Len(input) = ErrPos))
    /\ [][ErrRead' => Len(chunk_streams') = Len(chunk_streams)]_vars

\* An error frame after payload that had opened a second sub-stream: the
\* error item went into that sub-stream and the splitter returned success.
C20_Witness ==
    /\ ErrRead
    /\ sp_pc = "done"
    /\ sp_result = "ok"
    /\ ErrForwarded
    /\ Cardinality(SubStreams) = 2
    /\ Len(chunk_streams[Cur].chunks) = 2

\* A frame followed the error frame: the thread panicked.
C20_WitnessPanic ==
    /\ ErrRead
    /\ sp_result = "panic"
    /\ Len(input) = ErrPos + 1

(***************************************************************************)
(* Properties of what the splitter's consumer observes.                    *)
(***************************************************************************)
\* The error items over all sub-streams, as (sub-stream, position) pairs.
AllErrItems == UNION {{<<i, k>> : k \in ErrItems(i)} : i \in SubStreams}

\* One error item, the last item of the last sub-stream.
OneTrailingError ==
    /\ Cardinality(AllErrItems) = 1
    /\ chunk_streams # <<>>
    /\ chunk_streams[Cur].kind = "Receiver"
    /\ ErrItems(Cur) = {Len(chunk_streams[Cur].chunks)}

\* C21: when splitter() has returned success, what it emitted ends either
\* with the terminal EofWithCheckSum record or with exactly one trailing error
\* item: never with neither of them.
C21_CleanEndOrError ==
    (sp_pc = "done" /\ sp_result = "ok") => (EofRecords # {} \/ OneTrailingError)

\* The payload bytes of the frame the splitter took last.
LastFrameBytes ==
    IF input = <<>> THEN {}
    ELSE {input[Len(input)].bytes[k] : k \in 1..Len(input[Len(input)].bytes)}

\* The chunks sent into the sub-stream at position i that the consumer has not
\* received yet.
Untaken(i) == (chunk_streams[i].taken + 1)..Len(chunk_streams[i].chunks)

\* C22: the hand-offs are rendezvous. A chunk is only ever sent into a
\* sub-stream whose handle the consumer has received (the send of the handle
\* returns with the consumer's recv), and the splitter takes the next frame
\* from its input only when the consumer has received every chunk of the
\* frames before: a chunk the consumer has not received yet belongs to the
\* frame taken last.
C22_Rendezvous ==
    \A i \in SubStreams :
        chunk_streams[i].rx = "open" =>
            \A k \in Untaken(i) :
                chunk_streams[i].chunks[k].kind = "chunk" =>
                    \A b \in 1..Len(chunk_streams[i].chunks[k].bytes) :
                        chunk_streams[i].chunks[k].bytes[b] \in LastFrameBytes

(***************************************************************************)
(* Properties of the encryptor's teardown.                                 *)
(***************************************************************************)
\* The error close() was called with by the call that ran the teardown: the
\* first failure of that teardown, when there is one.
CloseArg ==
    IF enc_caller = "write" THEN WriteFailed
    ELSE IF enc_caller = "flush" THEN FlushFailed
    ELSE "ok"

\* close() is running its teardown.
InTeardown == enc_pc \in {"close_stdin", "close_join"}

\* C23: in the teardown the first error wins. When close() was called with
\* the error of a failed write or flush, that error is the result it carries
\* through its steps, records and returns: the failure of the flush of stdin,
\* the error of the stdout reader, a non-empty stderr or a non-zero exit
\* status coming later do not replace it.
C23_FirstErrorWins ==
    CloseArg # "ok" =>
        /\ (InTeardown => enc_local_result = CloseArg)
        /\ (recorded => enc_result = CloseArg)

\* C24: the teardown always terminates. stdin is closed before the stdout
\* reader is joined, and close() eventually returns even when the subprocess
\* does not end after its input is closed: the subprocess is then terminated.
C24_TeardownTerminates ==
    /\ [](enc_pc = "close_join" => enc_stdin = "none")
    /\ (InTeardown ~> ~InTeardown)

(***************************************************************************)
(* Properties of the planner's handling of failed calls.                   *)
(***************************************************************************)
\* The positions in the log of the calls of one kind, and of the failed ones.
CallsOf(op) == {i \in 1..Len(log) : log[i].op = op}
FailedCalls == {i \in 1..Len(log) : ~log[i].ok}

\* The backups the loop over the backups of group g tries to upload, whatever
\* the uploads return: the target backups of g that are not in the cloud
\* listing of g, without the first target backup in a debug build.
UploadsDue(g) ==
    LET skipped == IF develop_mode
                   THEN {b \in target_groups[g] : \A c \in target_groups[g] : b <= c}
                   ELSE {}
    IN (target_groups[g] \ get_or_empty(cloud_groups, g)) \ skipped

\* The groups the planner tries to create and to delete, whatever the calls
\* before returned.
CreatesDue == {g \in NonEmptyGroups(target_groups) : g \notin DOMAIN cloud_groups}
DeletesDue == {g \in DOMAIN cloud_groups : develop_mode \/ g \notin DOMAIN target_groups}

\* C25: failures inside the planner are contained. The planner returns an
\* error only when a listing failed, before any call. A run that got past the
\* listings returns success and has attempted, whatever each call returned:
\* the creation of every non-empty target group absent from the cloud, every
\* upload due in each group that is on the cloud or whose creation succeeded
\* (none in a group whose creation failed), and every delete due; each once.
C25_FailuresContained ==
    /\ pl_result = "err" => (log = <<>> /\ pl_pc = "done" /\ ~Planned)
    /\ FailedCalls # {} => pl_result # "err"
    /\ (pl_pc = "done" /\ pl_result = "ok") =>
          /\ {log[i].group : i \in CallsOf("create")} = CreatesDue
          /\ {log[i].group : i \in CallsOf("delete")} = DeletesDue
          /\ \A g \in Groups :
                LET entered ==
                        /\ g \in NonEmptyGroups(target_groups)
                        /\ \/ g \in DOMAIN cloud_groups
                           \/ \E i \in 1..Len(log) : log[i] = Call("create", g, None, TRUE)
                IN UploadsAttempted(g) =
                      (IF entered THEN Ascending(UploadsDue(g)) ELSE <<>>)
          /\ \A i, j \in 1..Len(log) :
                (log[i].op = log[j].op /\ log[i].group = log[j].group
                 /\ log[i].backup = log[j].backup) => i = j

\* A run in which an upload failed and the next backup of the group was
\* attempted, and a delete failed and the next delete was attempted.
C25_Witness ==
    /\ pl_pc = "done"
    /\ pl_result = "ok"
    /\ \E i, j \in CallsOf("upload") :
          i < j /\ ~log[i].ok /\ log[i].group = log[j].group
    /\ \E i, j \in CallsOf("delete") : i < j /\ ~log[i].ok

\* A run in which the creation of a group failed and a later group got its
\* uploads.
C25_WitnessCreate ==
    /\ pl_pc = "done"
    /\ pl_result = "ok"
    /\ \E i \in CallsOf("create"), j \in CallsOf("upload") :
          i < j /\ ~log[i].ok /\ log[i].group < log[j].group

(***************************************************************************)
(* Properties of the splitter's senders.                                   *)
(***************************************************************************)
\* C26: at most one sub-stream is open for writing. A sub-stream whose sender
\* is alive is the last one handed out and the splitter holds its sender;
\* while the splitter offers the handle of the next sub-stream the senders of
\* all sub-streams handed out before are dropped, after a partial slice as
\* well as after a sub-stream that was exactly full.
C26_OneOpenSubStream ==
    /\ \A i \in SubStreams : chunk_streams[i].tx_open => (i = Cur /\ tx = "open")
    /\ sp_pc = "send_stream" => \A i \in SubStreams : ~chunk_streams[i].tx_open

\* Three sub-streams under a cap of one byte: the first exactly filled by the
\* first frame, the second filled by a slice of the second frame, the third
\* open.
C26_Witness ==
    /\ Cardinality(SubStreams) = 3
    /\ chunk_streams[3].tx_open
    /\ Len(input) = 2
    /\ Len(input[1].bytes) = stream_max_size
    /\ Len(input[2].bytes) = 2 * stream_max_size
    /\ Len(StreamBytes(3)) = 1

(***************************************************************************)
(* Properties of the encryptor's unwrap_err() calls.                       *)
(***************************************************************************)
\* C27: the unwrap_err() calls of the encryptor never meet a success. While
\* the owner can still call write or flush a recorded result is an error (a
\* success is recorded only by the teardown of finish, of drop or of a failed
\* new, which consume the Encryptor), and a close() entered by write or flush
\* with their error carries an error through its steps, records an error and
\* returns it.
C27_UnwrapErrNeverFails ==
    /\ (enc_pc = "ready" /\ recorded) => enc_result # "ok"
    /\ enc_result = "ok" => (enc_pc = "gone" /\ enc_caller \in {"finish", "drop", "new"})
    /\ enc_caller \in {"write", "flush"} =>
          /\ (InTeardown => enc_local_result # "ok")
          /\ (recorded => enc_result # "ok")
          /\ (recorded => \E i \in 1..Len(enc_calls) :
                 /\ enc_calls[i] = [op |-> enc_caller, ret |-> enc_result, stdin |-> TRUE]
                 /\ \A j \in 1..(i - 1) : enc_calls[j].ret = "ok")

\* A flush failed and its close() recorded the error; the write that followed
\* found the recorded error and returned it.
C27_Witness ==
    /\ enc_pc = "ready"
    /\ enc_caller = "flush"
    /\ recorded
    /\ Len(enc_calls) >= 2
    /\ enc_calls[Len(enc_calls)] = [op |-> "write", ret |-> enc_result, stdin |-> FALSE]

(***************************************************************************)
(* Properties of the planner's uploads and deletes.                        *)
(***************************************************************************)
\* C28: every upload the planner attempts names a group of local_groups and a
\* backup of that group in local_groups: a backup that only the cloud listing
\* knows is in the target but is never uploaded.
C28_UploadsAreLocal ==
    \A i \in CallsOf("upload") :
        /\ log[i].group \in DOMAIN local_groups
        /\ log[i].backup \in local_groups[log[i].group]

\* A finished run that uploaded into a group whose target also held a backup
\* known from the cloud listing only.
C28_Witness ==
    /\ pl_pc = "done"
    /\ pl_result = "ok"
    /\ \E i \in CallsOf("upload") :
          \E b \in target_groups[log[i].group] :
              /\ b \notin get_or_empty(local_groups, log[i].group)
              /\ b \in get_or_empty(cloud_groups, log[i].group)

\* C29: the deletes come last and depend on the listings and the cap only.
\* Every delete is issued after every create and every upload of the run and
\* names a listed cloud group, each at most once; and when the run is done the
\* groups whose deletion was attempted are those the two listings and the cap
\* determine (the listed cloud groups outside the target; every listed cloud
\* group in a debug build), whatever the creates and uploads returned.
C29_DeletesLast ==
    /\ \A i \in CallsOf("delete") :
          /\ \A j \in CallsOf("create") \cup CallsOf("upload") : j < i
          /\ \A j \in CallsOf("delete") : j < i => log[j].group < log[i].group
          /\ log[i].group \in DOMAIN cloud_groups
          /\ pl_pc \in {"deletes", "done"}
    /\ pl_pc = "deletes" => \A g \in DOMAIN cloud_groups :
          (g <= group_name) => (Attempted("delete", g) <=>
              (develop_mode \/ g \notin DOMAIN get_target_backup_groups(
                                    local_groups, cloud_groups, max_backup_groups)))
    /\ (pl_pc = "done" /\ pl_result = "ok") =>
          {log[i].group : i \in CallsOf("delete")} =
              {g \in DOMAIN cloud_groups :
                  develop_mode \/ g \notin DOMAIN get_target_backup_groups(
                                       local_groups, cloud_groups, max_backup_groups)}

\* A finished run of a release build in which every upload failed and a cloud
\* group outside the target was deleted all the same.
C29_Witness ==
    /\ ~develop_mode
    /\ pl_pc = "done"
    /\ pl_result = "ok"
    /\ CallsOf("upload") # {}
    /\ \A i \in CallsOf("upload") \cup CallsOf("create") : ~log[i].ok
    /\ \E i \in CallsOf("delete") : log[i].ok /\ log[i].group \notin DOMAIN target_groups

====
